---- MODULE Spec2Model ----
(***************************************************************************)
(* Batch image operations of the viewer's command line (CommandOps.cpp):   *)
(* every operation is built from a comma separated descriptor string and   *)
(* then applied to an image.  Strings are TLA+ strings handled character   *)
(* by character, single precision floats are (mantissa, exponent) pairs    *)
(* with round-to-nearest-even, and the image is the part of Viewer::Image  *)
(* the operations read and write.                                          *)
(***************************************************************************)
EXTENDS Integers, Sequences, FiniteSets, TLC

VARIABLES pc, op, image, calls, ret, before, nops

vars == <<pc, op, image, calls, ret, before, nops>>

(***************************************************************************)
(* tString                                                                 *)
(***************************************************************************)
Chr(s, i) == SubSeq(s, i, i)

RECURSIVE FindFrom(_, _, _)
FindFrom(s, c, i) ==
    IF i > Len(s) THEN -1
    ELSE IF Chr(s, i) = c THEN i - 1
    ELSE FindFrom(s, c, i + 1)

\* tString::FindChar: the 0-based index of the first c in s, or -1.
FindChar(s, c) == FindFrom(s, c, 1)

\* tString::FindAny: -1 unless one of the characters of set occurs in s.
FindAny(s, set) ==
    IF \E i \in 1..Len(set) : FindChar(s, Chr(set, i)) # -1 THEN 0 ELSE -1

IsEmpty(s) == Len(s) = 0

\* colStr[0]: the first character, the terminator for an empty string.
FirstChar(s) == IF Len(s) = 0 THEN "" ELSE Chr(s, 1)

Uppers == "ABCDEFGHIJKLMNOPQRSTUVWXYZ"
Lowers == "abcdefghijklmnopqrstuvwxyz"

LowerChar(c) ==
    LET i == FindChar(Uppers, c) IN IF i = -1 THEN c ELSE Chr(Lowers, i + 1)

RECURSIVE ToLower(_)
ToLower(s) == IF Len(s) = 0 THEN "" ELSE LowerChar(Chr(s, 1)) \o ToLower(Tail(s))

\* tString::IsEqualCI
IsEqualCI(a, b) == ToLower(a) = ToLower(b)

\* tHash::tHashString(a) == tHash::tHashCT(b): the hash is of the exact
\* characters, so two strings agree when they are the same string.
HashEq(a, b) == a = b

RECURSIVE RemoveChar(_, _)
\* tString::Remove(c): s without any c.
RemoveChar(s, c) ==
    IF Len(s) = 0 THEN ""
    ELSE (IF Chr(s, 1) = c THEN "" ELSE Chr(s, 1)) \o RemoveChar(Tail(s), c)

RECURSIVE Explode(_, _)
\* tStd::tExplode: the components of src between dividers; what follows the
\* last divider is a component only if it is not empty.
Explode(src, divider) ==
    LET i == FindChar(src, divider) IN
    IF i = -1 THEN (IF Len(src) = 0 THEN <<>> ELSE <<src>>)
    ELSE <<SubSeq(src, 1, i)>> \o Explode(SubSeq(src, i + 2, Len(src)), divider)

tExplode(src, divider) == Explode(src, divider)

DigitVal(c) == FindChar("0123456789", c)
HexVal(c) == FindChar("0123456789abcdef", LowerChar(c))

RECURSIVE DigitsValue(_, _, _)
\* The number the digit characters of s spell in the given base, characters
\* that are no digit of the base skipped.
DigitsValue(s, base, acc) ==
    IF Len(s) = 0 THEN acc
    ELSE LET d == HexVal(Chr(s, 1)) IN
         IF d < 0 \/ d >= base THEN DigitsValue(Tail(s), base, acc)
         ELSE DigitsValue(Tail(s), base, acc * base + d)

\* tString::AsInt32 / AsInt: base 10, a leading '-' negates; "*" and any
\* text without digits give 0.
AsInt32(s) ==
    IF Len(s) = 0 THEN 0
    ELSE IF Chr(s, 1) = "-" THEN 0 - DigitsValue(Tail(s), 10, 0)
    ELSE DigitsValue(s, 10, 0)

AsInt(s) == AsInt32(s)

RECURSIVE HexDigits(_)
HexDigits(s) ==
    IF Len(s) = 0 THEN ""
    ELSE (IF HexVal(Chr(s, 1)) < 0 THEN "" ELSE Chr(s, 1)) \o HexDigits(Tail(s))

\* Byte k (0 the lowest) of colStr.AsUInt32(16): the value keeps its low 32
\* bits, that is the last eight hex digits.
HexByte(s, k) ==
    LET d == HexDigits(s)
        n == Len(d)
        lo == IF n - 2 * k >= 1 THEN HexVal(Chr(d, n - 2 * k)) ELSE 0
        hi == IF n - 2 * k - 1 >= 1 THEN HexVal(Chr(d, n - 2 * k - 1)) ELSE 0
    IN  16 * hi + lo

\* tString::AsBool
AsBool(s) ==
    LET l == ToLower(s) IN
    l \in {"true", "t", "yes", "y", "on", "enable", "enabled", "1", "+"}

(***************************************************************************)
(* float: IEEE single precision, non-negative values.  A value is          *)
(* m * 2^e with 2^23 <= m < 2^24, or m = 0.                                 *)
(***************************************************************************)
RECURSIVE Pow2(_)
Pow2(k) == IF k <= 0 THEN 1 ELSE 2 * Pow2(k - 1)

F32Zero == [m |-> 0, e |-> 0]

RECURSIVE F32NormUp(_, _)
F32NormUp(m, e) ==
    IF m >= 8388608 THEN [m |-> m, e |-> e] ELSE F32NormUp(2 * m, e - 1)

\* float(n) for 0 <= n < 2^24: exact.
F32FromInt(n) == IF n <= 0 THEN F32Zero ELSE F32NormUp(n, 0)

\* Round a quotient or product q with remainder twiceRem/2 (out of d) to
\* nearest, ties to even, and renormalise a mantissa that reached 2^24.
F32Round(q, e, twiceRem, d) ==
    LET up == twiceRem > d \/ (twiceRem = d /\ q % 2 = 1)
        q1 == IF up THEN q + 1 ELSE q
    IN  IF q1 = 16777216 THEN [m |-> 8388608, e |-> e + 1] ELSE [m |-> q1, e |-> e]

\* k more quotient bits of r / d (r < d < 2^24, k <= 6) by long division.
F32DivStep(qr, d, k) ==
    <<qr[1] * Pow2(k) + ((qr[2] * Pow2(k)) \div d), (qr[2] * Pow2(k)) % d>>

F32DivVal(x, y) ==
    IF x.m = 0 THEN F32Zero
    ELSE LET first == IF x.m >= y.m THEN <<1, x.m - y.m>> ELSE <<0, x.m>>
             last == IF x.m >= y.m THEN 5 ELSE 6
             s1 == CHOOSE v \in {F32DivStep(first, y.m, 6)} : TRUE
             s2 == CHOOSE v \in {F32DivStep(s1, y.m, 6)} : TRUE
             s3 == CHOOSE v \in {F32DivStep(s2, y.m, 6)} : TRUE
             s4 == CHOOSE v \in {F32DivStep(s3, y.m, last)} : TRUE
         IN  F32Round(s4[1], x.e - y.e - 18 - last, 2 * s4[2], y.m)

\* x / y, correctly rounded.
F32Div(x, y) == CHOOSE r \in {F32DivVal(xv, yv) : xv \in {x}, yv \in {y}} : TRUE

\* The 48 bit product of two mantissas is kept as two 24 bit limbs.
F32MulVal(x, y) ==
    IF x.m = 0 \/ y.m = 0 THEN F32Zero
    ELSE LET a == x.m \div 4096
             b == x.m % 4096
             c == y.m \div 4096
             d == y.m % 4096
             mid == a * d + b * c
             low == (mid % 4096) * 4096 + b * d
             lo == low % 16777216
             hi == a * c + (mid \div 4096) + (low \div 16777216)
         IN  IF hi >= 8388608
             THEN F32Round(hi, x.e + y.e + 24, 2 * lo, 16777216)
             ELSE F32Round(2 * hi + (lo \div 8388608), x.e + y.e + 23,
                           2 * (lo % 8388608), 8388608)

\* x * y, correctly rounded.
F32Mul(x, y) == CHOOSE r \in {F32MulVal(xv, yv) : xv \in {x}, yv \in {y}} : TRUE

\* int(x): truncation toward zero.
F32ToIntVal(x) ==
    IF x.m = 0 THEN 0
    ELSE IF x.e >= 0 THEN x.m * Pow2(x.e)
    ELSE IF x.e < -24 THEN 0
    ELSE x.m \div Pow2(0 - x.e)

F32ToInt(x) == CHOOSE r \in {F32ToIntVal(xv) : xv \in {x}} : TRUE

\* x + y, correctly rounded (x, y >= 0).
F32AddVal(x, y) ==
    IF x.m = 0 THEN y
    ELSE IF y.m = 0 THEN x
    ELSE LET big == IF x.e >= y.e THEN x ELSE y
             small == IF x.e >= y.e THEN y ELSE x
             shift == big.e - small.e
         IN  IF shift > 25 THEN big
             ELSE LET sum == big.m + (small.m \div Pow2(shift))
                      rem == small.m % Pow2(shift)
                  IN  IF sum >= 16777216
                      THEN F32Round(sum \div 2, big.e + 1,
                                    2 * ((sum % 2) * Pow2(shift) + rem), Pow2(shift + 1))
                      ELSE F32Round(sum, big.e, 2 * rem, Pow2(shift))

F32Add(x, y) == CHOOSE r \in {F32AddVal(xv, yv) : xv \in {x}, yv \in {y}} : TRUE

F32Half == [m |-> 8388608, e |-> -24]

\* x > y and x < y on floats.
F32Less(x, y) ==
    IF y.m = 0 THEN FALSE
    ELSE IF x.m = 0 THEN TRUE
    ELSE x.e < y.e \/ (x.e = y.e /\ x.m < y.m)

\* tMath::tFloatToInt: int(val + 0.5f).
tFloatToInt(x) == F32ToInt(F32Add(x, F32Half))

\* tMath::tiClamp
tClamp(v, lo, hi) == IF v < lo THEN lo ELSE IF v > hi THEN hi ELSE v

\* tMath::tClampMax / tiClampMin
tClampMax(v, hi) == IF v > hi THEN hi ELSE v
\* A clamp from below that leaves the value as it is.
tClampMinIdle(v, lo) == v

tClampMin(v, lo) == IF v < lo THEN lo ELSE v

(***************************************************************************)
(* Colours, anchors, filters and edge modes                                *)
(***************************************************************************)
\* tColour4i: <<R, G, B, A>>.
black == <<0, 0, 0, 255>>
white == <<255, 255, 255, 255>>
grey == <<128, 128, 128, 255>>
red == <<255, 0, 0, 255>>
green == <<0, 255, 0, 255>>
blue == <<0, 0, 255, 255>>
yellow == <<255, 255, 0, 255>>
cyan == <<0, 255, 255, 255>>
magenta == <<255, 0, 255, 255>>
transparent == <<0, 0, 0, 0>>

\* FillColour.Set(hex >> 24, hex >> 16, hex >> 8, hex >> 0) of colStr.AsUInt32(16).
HexColour(colStr) ==
    <<HexByte(colStr, 3), HexByte(colStr, 2), HexByte(colStr, 1), HexByte(colStr, 0)>>

\* The switch over the named colours; dflt when no case matches.
NamedColour(colStr, dflt) ==
    IF HashEq(colStr, "black") THEN black
    ELSE IF HashEq(colStr, "white") THEN white
    ELSE IF HashEq(colStr, "grey") THEN grey
    ELSE IF HashEq(colStr, "red") THEN red
    ELSE IF HashEq(colStr, "green") THEN red
    ELSE IF HashEq(colStr, "blue") THEN red
    ELSE IF HashEq(colStr, "yellow") THEN yellow
    ELSE IF HashEq(colStr, "cyan") THEN cyan
    ELSE IF HashEq(colStr, "magenta") THEN magenta
    ELSE IF HashEq(colStr, "trans") THEN transparent
    ELSE dflt

\* The fill colour block of Canvas, Aspect, Crop and Rotate.
ParseFillColour(colStr, current) ==
    IF FirstChar(colStr) = "#" THEN HexColour(colStr) ELSE NamedColour(colStr, current)

\* The anchor switch: MiddleMiddle unless a case matches.
ParseAnchor(tok) ==
    IF HashEq(tok, "tl") THEN "LeftTop"
    ELSE IF HashEq(tok, "tm") THEN "MiddleTop"
    ELSE IF HashEq(tok, "tr") THEN "RightTop"
    ELSE IF HashEq(tok, "ml") THEN "LeftMiddle"
    ELSE IF HashEq(tok, "mm") THEN "MiddleMiddle"
    ELSE IF HashEq(tok, "mr") THEN "RightMiddle"
    ELSE IF HashEq(tok, "bl") THEN "LeftBottom"
    ELSE IF HashEq(tok, "bm") THEN "MiddleBottom"
    ELSE IF HashEq(tok, "br") THEN "RightBottom"
    ELSE "MiddleMiddle"

\* tImage::tResampleFilterNamesSimple: the filters, then "none".
tResampleFilterNamesSimple ==
    <<"nearest", "box", "bilinear", "bicubic", "bicubic_catmullrom",
      "bicubic_mitchell", "bicubic_cardinal", "bicubic_bspline", "lanczos",
      "lanczos_narrow", "lanczos_normal", "lanczos_wide", "none">>

NumFilters == Len(tResampleFilterNamesSimple) - 1

tResampleEdgeModeNamesSimple == <<"clamp", "wrap">>

NumEdgeModes == Len(tResampleEdgeModeNamesSimple)

\* for (f = 0; f < n; f++) if (tok.IsEqualCI(names[f])) { value = f; break; }
\* A filter or edge mode is written by its name in names.
LookupCI(tok, names, n, current) ==
    LET hits == {f \in 1..n : IsEqualCI(tok, names[f])} IN
    IF hits = {} THEN current
    ELSE names[CHOOSE f \in hits : \A g \in hits : f <= g]

\* tComp_R, tComp_G, tComp_B, tComp_A as a set of channel letters.
tComp_RGB == {"R", "G", "B"}
tComp_RGBA == {"R", "G", "B", "A"}

(***************************************************************************)
(* Operations: construction from a descriptor.  Every operation record     *)
(* carries kind, args (the descriptor), Valid, diag (the diagnostic        *)
(* printed, "" when none) and ub (an absent argument was read).            *)
(***************************************************************************)
\* Operation with Valid starting true.
OperationBornValid(kind, argsStr) ==
    [kind |-> kind, args |-> argsStr, Valid |-> TRUE, diag |-> "", ub |-> FALSE]

\* struct Operation: Valid starts false.
Operation(kind, argsStr) ==
    [kind |-> kind, args |-> argsStr, Valid |-> FALSE, diag |-> "", ub |-> FALSE]

NoOperation == Operation("none", "")

\* r with the fields of s added or overwritten.
With(r, s) ==
    [f \in (DOMAIN r) \cup (DOMAIN s) |-> IF f \in DOMAIN s THEN s[f] ELSE r[f]]

ResizeFields ==
    [Width |-> 0, Height |-> 0, ResampleFilter |-> "bilinear", EdgeMode |-> "clamp"]

ResizeParse(argsStr, args) ==
    LET numArgs == Len(args)
        base == With(Operation("Resize", argsStr), ResizeFields)
    IN  IF numArgs < 2
        THEN With(base, [diag |-> "Operation Resize Invalid. At least 2 arguments required."])
        ELSE LET Width == AsInt32(args[1])
                 Height == AsInt32(args[2])
                 dims == With(base, [Width |-> Width, Height |-> Height])
             IN  IF (Width <= 0) /\ (Height <= 0)
                 THEN With(dims, [diag |-> "Operation Resize Invalid. Width or Height or both must be specified."])
                 ELSE With(dims,
                        [ResampleFilter |->
                            IF numArgs >= 3
                            THEN LookupCI(args[3], tResampleFilterNamesSimple, NumFilters, "bilinear")
                            ELSE base.ResampleFilter,
                         EdgeMode |->
                            IF numArgs >= 4
                            THEN LookupCI(args[4], tResampleEdgeModeNamesSimple, NumEdgeModes, "clamp")
                            ELSE base.EdgeMode,
                         Valid |-> TRUE])

OperationResize(argsStr) ==
    CHOOSE o \in {ResizeParse(argsStr, a) : a \in {tExplode(argsStr, ",")}} : TRUE

CanvasFields ==
    [Width |-> 0, Height |-> 0, Anchor |-> "MiddleMiddle", FillColour |-> black,
     AnchorX |-> -1, AnchorY |-> -1]

\* The Anchor X / Anchor Y blocks: set only from a token that is not empty
\* and does not start with '*'.
ParseAnchorCoord(str, current) ==
    IF ~IsEmpty(str) /\ (FirstChar(str) # "*") THEN AsInt32(str) ELSE current

CanvasParse(argsStr, args) ==
    LET numArgs == Len(args)
        base == With(Operation("Canvas", argsStr), CanvasFields)
    IN  IF numArgs < 2
        THEN With(base, [diag |-> "Operation Canvas Invalid. At least 2 arguments required."])
        ELSE LET Width == AsInt32(args[1])
                 Height == AsInt32(args[2])
                 dims == With(base, [Width |-> Width, Height |-> Height])
             IN  IF (Width <= 0) /\ (Height <= 0)
                 THEN With(dims, [diag |-> "Operation Canvas Invalid. Width or Height or both must be specified."])
                 ELSE With(dims,
                        [Anchor |-> IF numArgs >= 3 THEN ParseAnchor(args[3]) ELSE base.Anchor,
                         FillColour |->
                            IF numArgs >= 4 THEN ParseFillColour(args[4], base.FillColour)
                            ELSE base.FillColour,
                         AnchorX |->
                            IF numArgs >= 5 THEN ParseAnchorCoord(args[5], base.AnchorX)
                            ELSE base.AnchorX,
                         AnchorY |->
                            IF numArgs >= 6 THEN ParseAnchorCoord(args[6], base.AnchorY)
                            ELSE base.AnchorY,
                         Valid |-> TRUE])

OperationCanvas(argsStr) ==
    CHOOSE o \in {CanvasParse(argsStr, a) : a \in {tExplode(argsStr, ",")}} : TRUE

AspectFields ==
    [Num |-> 16, Den |-> 9, Mode |-> "Crop", Anchor |-> "MiddleMiddle",
     FillColour |-> black, AnchorX |-> -1, AnchorY |-> -1]

\* Num and Den taken from the token's parts as parsed, whatever their sign.
AspectRatioAsParsed(tok, current) ==
    LET aspectArgs == tExplode(tok, ":") IN
    IF Len(aspectArgs) = 2
    THEN [Num |-> AsInt32(aspectArgs[1]), Den |-> AsInt32(aspectArgs[2])]
    ELSE current

\* Num and Den from the "num:den" token; both stay as they are unless the
\* token has exactly two parts.
AspectRatio(tok, current) ==
    LET aspectArgs == tExplode(tok, ":") IN
    IF Len(aspectArgs) = 2
    THEN [Num |-> IF AsInt32(aspectArgs[1]) <= 0 THEN 16 ELSE AsInt32(aspectArgs[1]),
          Den |-> IF AsInt32(aspectArgs[2]) <= 0 THEN 9 ELSE AsInt32(aspectArgs[2])]
    ELSE current

AspectParse(argsStr, args) ==
    LET numArgs == Len(args)
        base == With(Operation("Aspect", argsStr), AspectFields)
    IN  IF numArgs < 2
        THEN With(base, [diag |-> "Operation Aspect Invalid. At least 2 arguments required."])
        ELSE LET ratio == AspectRatio(args[1], [Num |-> base.Num, Den |-> base.Den])
             IN  With(base,
                   [Num |-> ratio.Num,
                    Den |-> ratio.Den,
                    Mode |-> IF HashEq(args[2], "crop") THEN "Crop"
                             ELSE IF HashEq(args[2], "letter") THEN "Letterbox"
                             ELSE base.Mode,
                    Anchor |-> IF numArgs >= 3 THEN ParseAnchor(args[3]) ELSE base.Anchor,
                    FillColour |->
                        IF numArgs >= 4 THEN ParseFillColour(args[4], base.FillColour)
                        ELSE base.FillColour,
                    AnchorX |->
                        IF numArgs >= 5 THEN ParseAnchorCoord(args[5], base.AnchorX)
                        ELSE base.AnchorX,
                    AnchorY |->
                        IF numArgs >= 6 THEN ParseAnchorCoord(args[6], base.AnchorY)
                        ELSE base.AnchorY,
                    Valid |-> TRUE])

OperationAspect(argsStr) ==
    CHOOSE o \in {AspectParse(argsStr, a) : a \in {tExplode(argsStr, ",")}} : TRUE

\* The channel letters a mask token names, upper or lower case.
MaskLetters(chanStr) ==
    (IF FindAny(chanStr, "rR") # -1 THEN {"R"} ELSE {})
    \cup (IF FindAny(chanStr, "gG") # -1 THEN {"G"} ELSE {})
    \cup (IF FindAny(chanStr, "bB") # -1 THEN {"B"} ELSE {})
    \cup (IF FindAny(chanStr, "aA") # -1 THEN {"A"} ELSE {})

DeborderFields ==
    [UseTestColour |-> FALSE, TestColour |-> black, Channels |-> tComp_RGBA]

\* The channels block of Deborder.
DeborderChannels(chanStr) ==
    LET star == IF FindChar(chanStr, "*") # -1 THEN tComp_RGBA ELSE {}
        chans == star \cup MaskLetters(chanStr)
    IN  IF chans = {} THEN tComp_RGBA ELSE chans

DeborderParse(argsStr, args) ==
    LET numArgs == Len(args)
        base == With(Operation("Deborder", argsStr), DeborderFields)
        colStr == args[1]
        named == NamedColour(colStr, <<>>)
    IN  With(base,
          [UseTestColour |->
              IF numArgs >= 1 THEN (FirstChar(colStr) = "#") \/ (named # <<>>)
              ELSE base.UseTestColour,
           TestColour |->
              IF numArgs >= 1
              THEN (IF FirstChar(colStr) = "#" THEN HexColour(colStr)
                    ELSE IF named # <<>> THEN named ELSE base.TestColour)
              ELSE base.TestColour,
           Channels |-> IF numArgs >= 2 THEN DeborderChannels(args[2]) ELSE base.Channels,
           Valid |-> TRUE])

OperationDeborder(argsStr) ==
    CHOOSE o \in {DeborderParse(argsStr, a) : a \in {tExplode(argsStr, ",")}} : TRUE

CropFields ==
    [Mode |-> "Absolute", OriginX |-> 0, OriginY |-> 0, WidthOrMaxX |-> 4,
     HeightOrMaxY |-> 4, FillColour |-> transparent]

\* WidthOrMaxX / HeightOrMaxY kept as parsed, without the replacement of a
\* non-positive value.
CropExtentAsParsed(tok, Mode) == AsInt32(tok)

\* WidthOrMaxX / HeightOrMaxY: a non-positive value becomes 3 (Absolute) or 4
\* (Relative).
CropExtent(tok, Mode) ==
    LET v == AsInt32(tok) IN
    IF v <= 0 THEN (IF Mode = "Absolute" THEN 3 ELSE 4) ELSE v

CropParse(argsStr, args) ==
    LET numArgs == Len(args)
        base == With(Operation("Crop", argsStr), CropFields)
    IN  IF numArgs < 5
        THEN With(base, [diag |-> "Operation Crop Invalid. At least 5 arguments required."])
        ELSE LET Mode == IF HashEq(args[1], "abs") THEN "Absolute"
                         ELSE IF HashEq(args[1], "rel") THEN "Relative"
                         ELSE base.Mode
                 OriginX == AsInt32(args[2])
                 OriginY == AsInt32(args[3])
                 WidthOrMaxX == CropExtent(args[4], Mode)
                 HeightOrMaxY == CropExtent(args[5], Mode)
                 read == With(base, [Mode |-> Mode, OriginX |-> OriginX, OriginY |-> OriginY,
                                     WidthOrMaxX |-> WidthOrMaxX, HeightOrMaxY |-> HeightOrMaxY])
             IN  IF (OriginX < 0) \/ (OriginY < 0)
                 THEN With(read, [diag |-> "Operation Crop Invalid. OriginX and OriginY must be >= 0."])
                 ELSE IF Mode = "Absolute"
                         /\ (((WidthOrMaxX + 1 - OriginX) < 4) \/ ((HeightOrMaxY + 1 - OriginY) < 4))
                 THEN With(read, [diag |-> "Operation Crop Invalid. MaxX and MaxY must be at least 3 bigger than origin."])
                 ELSE IF Mode = "Relative" /\ ((WidthOrMaxX < 4) \/ (HeightOrMaxY < 4))
                 THEN With(read, [diag |-> "Operation Crop Invalid. Width and Height must be >= 4"])
                 ELSE With(read,
                        [FillColour |->
                            IF numArgs >= 6 THEN ParseFillColour(args[6], base.FillColour)
                            ELSE base.FillColour,
                         Valid |-> TRUE])

OperationCrop(argsStr) ==
    CHOOSE o \in {CropParse(argsStr, a) : a \in {tExplode(argsStr, ",")}} : TRUE

FlipFields == [Mode |-> "Horizontal"]

FlipParse(argsStr, args) ==
    LET numArgs == Len(args)
        base == With(Operation("Flip", argsStr), FlipFields)
    IN  With(base,
          [Mode |->
              IF numArgs >= 1
              THEN (IF args[1] \in {"h", "H", "horizontal", "Horizontal"} THEN "Horizontal"
                    ELSE IF args[1] \in {"v", "V", "vertical", "Vertical"} THEN "Vertical"
                    ELSE base.Mode)
              ELSE base.Mode,
           Valid |-> TRUE])

OperationFlip(argsStr) ==
    CHOOSE o \in {FlipParse(argsStr, a) : a \in {tExplode(argsStr, ",")}} : TRUE

(***************************************************************************)
(* Decimal values (levels, contrast, brightness, dither, angles) are kept  *)
(* in units of 1/10000: One is 1.0.                                        *)
(***************************************************************************)
One == 100 * 100

RECURSIVE LeadingDigits(_)
\* The digits s starts with.
LeadingDigits(s) ==
    IF Len(s) = 0 \/ DigitVal(Chr(s, 1)) < 0 THEN ""
    ELSE Chr(s, 1) \o LeadingDigits(Tail(s))

\* The first four decimals of a fraction, as a number of 1/10000.
FractionValue(f) ==
    LET d == LeadingDigits(f)
        p == SubSeq(d \o "0000", 1, 4)
    IN  DigitsValue(p, 10, 0)

\* tString::AsFloat / AsDouble: sign, digits, '.', digits; 0 when the text
\* does not start with a number (as for "*").
AsFloat(s) ==
    LET neg == Len(s) > 0 /\ Chr(s, 1) = "-"
        body == IF neg THEN Tail(s) ELSE s
        ip == LeadingDigits(body)
        rest == SubSeq(body, Len(ip) + 1, Len(body))
        frac == IF Len(rest) > 0 /\ Chr(rest, 1) = "." THEN FractionValue(Tail(rest)) ELSE 0
        mag == DigitsValue(ip, 10, 0) * One + frac
    IN  IF neg THEN 0 - mag ELSE mag

AsDouble(s) == AsFloat(s)

\* tMath::tiSaturate: clamp to [0, 1].
tSaturate(v) == tClamp(v, 0, One)

RotateFields ==
    [Angle |-> [radians |-> TRUE, value |-> 0], Exact |-> "Zero", Mode |-> "Crop",
     FilterUp |-> "bilinear", FilterDown |-> "none", FillColour |-> black]

\* RotateExact taking "-90" for an anticlockwise quarter turn.
RotateExactSignBlind(angleStr) ==
    IF angleStr \in {"90", "90.0", "acw", "ccw", "-90"} THEN "ACW90"
    ELSE IF angleStr \in {"-90.0", "cw"} THEN "CW90"
    ELSE IF angleStr \in {"180", "180.0"} THEN "R180"
    ELSE IF angleStr = "*" THEN "Zero"
    ELSE "Off"

\* The angle token's special strings: the exact mode, "Off" for none.
RotateExact(angleStr) ==
    IF angleStr \in {"90", "90.0", "acw", "ccw"} THEN "ACW90"
    ELSE IF angleStr \in {"-90", "-90.0", "cw"} THEN "CW90"
    ELSE IF angleStr \in {"180", "180.0"} THEN "R180"
    ELSE IF angleStr = "*" THEN "Zero"
    ELSE "Off"

RotateParse(argsStr, args) ==
    LET numArgs == Len(args)
        base == With(Operation("Rotate", argsStr), RotateFields)
    IN  IF numArgs < 1
        THEN With(base, [diag |-> "Operation Rotate Invalid. At least 1 argument required."])
        ELSE LET angleStr == args[1]
                 exact == RotateExact(angleStr)
                 degrees == FindChar(angleStr, "r") = -1
                 angle == AsFloat(RemoveChar(angleStr, "r"))
             IN  IF exact # "Off" THEN With(base, [Exact |-> exact, Valid |-> TRUE])
                 ELSE IF angle = 0 THEN With(base, [Exact |-> "Zero", Valid |-> TRUE])
                 ELSE With(base,
                        [Exact |-> "Off",
                         \* Angle = degrees ? tDegToRad(angle) : angle, kept as
                         \* the number and its unit.
                         Angle |-> [radians |-> ~degrees, value |-> angle],
                         Mode |->
                            IF numArgs >= 2
                            THEN (IF HashEq(args[2], "fill") THEN "Fill"
                                  ELSE IF HashEq(args[2], "crop") THEN "Crop"
                                  ELSE IF HashEq(args[2], "resize") THEN "Resize"
                                  ELSE base.Mode)
                            ELSE base.Mode,
                         FilterUp |->
                            IF numArgs >= 3
                            THEN LookupCI(args[3], tResampleFilterNamesSimple, NumFilters + 1, base.FilterUp)
                            ELSE base.FilterUp,
                         FilterDown |->
                            IF numArgs >= 4
                            THEN LookupCI(args[4], tResampleFilterNamesSimple, NumFilters + 1, base.FilterDown)
                            ELSE base.FilterDown,
                         FillColour |->
                            IF numArgs >= 5 THEN ParseFillColour(args[5], base.FillColour)
                            ELSE base.FillColour,
                         Valid |-> TRUE])

OperationRotate(argsStr) ==
    CHOOSE o \in {RotateParse(argsStr, a) : a \in {tExplode(argsStr, ",")}} : TRUE

(***************************************************************************)
(* Levels, Contrast, Brightness and Quantize read their leading arguments  *)
(* without looking at numArgs.  Reading an argument the descriptor does    *)
(* not have dereferences a null tStringItem: the read either ends the      *)
(* process, or yields some text g and construction goes on.                *)
(***************************************************************************)
\* The i-th argument as the constructor reads it.
ArgOr(args, i, g) == IF i <= Len(args) THEN args[i] ELSE g

\* The member initialisers of OperationLevels.
LevelsFields ==
    [BlackPoint |-> 0, MidPoint |-> One \div 2, WhitePoint |-> One,
     OutBlackPoint |-> 0, OutWhitePoint |-> One, FrameNumber |-> -1,
     Channels |-> "RGB", PowerMidGamma |-> FALSE]

\* The channels switch of Levels, Contrast and Brightness.
ParseAdjChan(tok, current) ==
    IF tok \in {"*", "rgb", "RGB"} THEN "RGB"
    ELSE IF tok \in {"r", "R"} THEN "R"
    ELSE IF tok \in {"g", "G"} THEN "G"
    ELSE IF tok \in {"b", "B"} THEN "B"
    ELSE IF tok \in {"a", "A"} THEN "A"
    ELSE current

\* The frame number block: -1 for "*".
ParseFrameNumber(frameStr) == IF frameStr = "*" THEN -1 ELSE AsInt32(frameStr)

LevelsParse(argsStr, args, g) ==
    LET numArgs == Len(args)
        base == With(Operation("Levels", argsStr), LevelsFields)
        BlackPoint == tSaturate(AsFloat(ArgOr(args, 1, g)))
        mpstr == ArgOr(args, 2, g)
        MidPoint0 == IF mpstr = "*" THEN 0 - One ELSE AsFloat(mpstr)
        WhitePoint0 == tSaturate(AsFloat(ArgOr(args, 3, g)))
        auto == MidPoint0 < 0
        WhitePointA == tClampMin(WhitePoint0, BlackPoint)
        MidPointN == tClampMin(tSaturate(MidPoint0), BlackPoint)
        MidPoint == IF auto THEN (WhitePointA + BlackPoint) \div 2 ELSE MidPointN
        WhitePoint == IF auto THEN WhitePointA ELSE tClampMin(WhitePoint0, MidPointN)
        OutBlackPoint == IF numArgs >= 4 THEN AsFloat(args[4]) ELSE base.OutBlackPoint
        OutWhitePoint0 ==
            IF numArgs >= 5 THEN tClampMin(AsFloat(args[5]), OutBlackPoint)
            ELSE base.OutWhitePoint
    IN  With(base,
          [ub |-> numArgs < 3,
           BlackPoint |-> BlackPoint,
           MidPoint |-> MidPoint,
           WhitePoint |-> WhitePoint,
           OutBlackPoint |-> OutBlackPoint,
           OutWhitePoint |-> tClampMin(OutWhitePoint0, OutBlackPoint),
           FrameNumber |-> IF numArgs >= 6 THEN ParseFrameNumber(args[6]) ELSE base.FrameNumber,
           Channels |-> IF numArgs >= 7 THEN ParseAdjChan(args[7], base.Channels) ELSE base.Channels,
           PowerMidGamma |->
              IF numArgs >= 8 THEN (IF args[8] = "*" THEN TRUE ELSE AsBool(args[8]))
              ELSE base.PowerMidGamma,
           Valid |-> TRUE])

OperationLevels(argsStr, g) ==
    CHOOSE o \in {LevelsParse(argsStr, a, g) : a \in {tExplode(argsStr, ",")}} : TRUE

\* The member initialisers of OperationContrast / OperationBrightness.
ContrastFields == [Contrast |-> One \div 2, FrameNumber |-> -1, Channels |-> "RGB"]
BrightnessFields == [Brightness |-> One \div 2, FrameNumber |-> -1, Channels |-> "RGB"]

\* The value block of Contrast and Brightness: "*" is 0.5, saturated.
ParseHalfDefault(str) == tSaturate(IF str = "*" THEN One \div 2 ELSE AsFloat(str))

ContrastParse(argsStr, args, g) ==
    LET numArgs == Len(args)
        base == With(Operation("Contrast", argsStr), ContrastFields)
    IN  With(base,
          [ub |-> numArgs < 1,
           Contrast |-> ParseHalfDefault(ArgOr(args, 1, g)),
           FrameNumber |-> IF numArgs >= 2 THEN ParseFrameNumber(args[2]) ELSE base.FrameNumber,
           Channels |-> IF numArgs >= 3 THEN ParseAdjChan(args[3], base.Channels) ELSE base.Channels,
           Valid |-> TRUE])

OperationContrast(argsStr, g) ==
    CHOOSE o \in {ContrastParse(argsStr, a, g) : a \in {tExplode(argsStr, ",")}} : TRUE

BrightnessParse(argsStr, args, g) ==
    LET numArgs == Len(args)
        base == With(Operation("Brightness", argsStr), BrightnessFields)
    IN  With(base,
          [ub |-> numArgs < 1,
           Brightness |-> ParseHalfDefault(ArgOr(args, 1, g)),
           FrameNumber |-> IF numArgs >= 2 THEN ParseFrameNumber(args[2]) ELSE base.FrameNumber,
           Channels |-> IF numArgs >= 3 THEN ParseAdjChan(args[3], base.Channels) ELSE base.Channels,
           Valid |-> TRUE])

OperationBrightness(argsStr, g) ==
    CHOOSE o \in {BrightnessParse(argsStr, a, g) : a \in {tExplode(argsStr, ",")}} : TRUE

\* The member initialisers of OperationQuantize.
QuantizeFields ==
    [Method |-> "Wu", NumColours |-> 256, CheckExact |-> FALSE, SampFilt |-> 1, Dither |-> 0]

\* The method switch.
QuantizeMethod(tok, current) ==
    IF HashEq(tok, "fix") THEN "Fixed"
    ELSE IF HashEq(tok, "spc") THEN "Spatial"
    ELSE IF HashEq(tok, "neu") THEN "Neu"
    ELSE IF HashEq(tok, "wu") \/ HashEq(tok, "*") THEN "Wu"
    ELSE current

\* SampFilt with the filter size of Spatial taken as given.
QuantizeSampFiltAsGiven(Method, numArgs, args, current) ==
    LET dflt == IF Method = "Spatial" THEN 3 ELSE IF Method = "Neu" THEN 1 ELSE current
    IN  IF numArgs < 4 THEN dflt
        ELSE IF Method = "Spatial" THEN (IF args[4] = "*" THEN 3 ELSE AsInt(args[4]))
        ELSE IF Method = "Neu"
        THEN tClamp(IF args[4] = "*" THEN 1 ELSE AsInt(args[4]), 1, 30)
        ELSE dflt

\* SampFilt: the default the method gives, then the fourth argument.
QuantizeSampFilt(Method, numArgs, args, current) ==
    LET dflt == IF Method = "Spatial" THEN 3 ELSE IF Method = "Neu" THEN 1 ELSE current
    IN  IF numArgs < 4 THEN dflt
        ELSE IF Method = "Spatial"
        THEN LET v == IF args[4] = "*" THEN 3 ELSE AsInt(args[4])
             IN  IF (v # 1) /\ (v # 3) /\ (v # 5) THEN 3 ELSE v
        ELSE IF Method = "Neu"
        THEN tClamp(IF args[4] = "*" THEN 1 ELSE AsInt(args[4]), 1, 30)
        ELSE dflt

\* Dither read and clamped whatever the method.
QuantizeDitherAnyMethod(Method, numArgs, args, current) ==
    IF numArgs >= 5
    THEN tClamp(IF args[5] = "*" THEN 0 ELSE AsDouble(args[5]), 0, 30 * One)
    ELSE current

\* Dither: read for Spatial only, clamped to [0, 30].
QuantizeDither(Method, numArgs, args, current) ==
    IF numArgs >= 5 /\ Method = "Spatial"
    THEN tClamp(IF args[5] = "*" THEN 0 ELSE AsDouble(args[5]), 0, 30 * One)
    ELSE current

QuantizeParse(argsStr, args, g) ==
    LET numArgs == Len(args)
        base == With(Operation("Quantize", argsStr), QuantizeFields)
        Method == QuantizeMethod(ArgOr(args, 1, g), base.Method)
        numColsStr == ArgOr(args, 2, g)
    IN  With(base,
          [ub |-> numArgs < 2,
           Method |-> Method,
           NumColours |-> tClamp(IF numColsStr = "*" THEN 256 ELSE AsInt(numColsStr), 2, 256),
           CheckExact |-> IF numArgs >= 3 THEN AsBool(args[3]) ELSE base.CheckExact,
           SampFilt |-> QuantizeSampFilt(Method, numArgs, args, base.SampFilt),
           Dither |-> QuantizeDither(Method, numArgs, args, base.Dither),
           Valid |-> TRUE])

OperationQuantize(argsStr, g) ==
    CHOOSE o \in {QuantizeParse(argsStr, a, g) : a \in {tExplode(argsStr, ",")}} : TRUE

\* The member initialisers of OperationChannel.
ChannelFields == [Mode |-> "Blend", Channels |-> tComp_RGBA, Colour |-> black]

\* tString::IsNumeric
IsNumeric(s) == Len(s) > 0 /\ \A i \in 1..Len(s) : DigitVal(Chr(s, i)) >= 0

\* tMath::tFindFirstSetBit over R, G, B, A (bits 0 to 3): the lowest channel.
FirstSetChannel(chans) ==
    IF "R" \in chans THEN {"R"}
    ELSE IF "G" \in chans THEN {"G"}
    ELSE IF "B" \in chans THEN {"B"}
    ELSE {"A"}

\* The channels block of Channel without the step that makes an empty mask R.
ChannelMaskAsNamed(chanStr, Mode) ==
    LET star == IF FindChar(chanStr, "*") # -1
                THEN (IF Mode = "Set" THEN tComp_RGB
                      ELSE IF Mode = "Blend" THEN tComp_RGBA
                      ELSE IF Mode = "Spread" THEN {"R"}
                      ELSE tComp_RGB)
                ELSE {}
        chans == star \cup MaskLetters(chanStr)
    IN  IF Mode = "Spread" /\ chans # {} THEN FirstSetChannel(chans) ELSE chans

\* The channels block of Channel.
ChannelMask(chanStr, Mode) ==
    LET star == IF FindChar(chanStr, "*") # -1
                THEN (IF Mode = "Set" THEN tComp_RGB
                      ELSE IF Mode = "Blend" THEN tComp_RGBA
                      ELSE IF Mode = "Spread" THEN {"R"}
                      ELSE tComp_RGB)
                ELSE {}
        chans == star \cup MaskLetters(chanStr)
        some == IF chans = {} THEN {"R"} ELSE chans
    IN  IF Mode = "Spread" THEN FirstSetChannel(some) ELSE some

\* The colour block of Channel.
ChannelColour(colStr, current) ==
    IF FirstChar(colStr) = "#" THEN HexColour(colStr)
    ELSE IF IsNumeric(colStr)
    THEN LET val == tClamp(AsInt(colStr), 0, 255) IN <<val, val, val, val>>
    ELSE NamedColour(colStr, current)

ChannelParse(argsStr, args) ==
    LET numArgs == Len(args)
        base == With(Operation("Channel", argsStr), ChannelFields)
        Mode == IF numArgs >= 1
                THEN (IF HashEq(args[1], "set") THEN "Set"
                      ELSE IF HashEq(args[1], "*") \/ HashEq(args[1], "blend") THEN "Blend"
                      ELSE IF HashEq(args[1], "spread") THEN "Spread"
                      ELSE IF HashEq(args[1], "intens") THEN "Intensity"
                      ELSE base.Mode)
                ELSE base.Mode
    IN  With(base,
          [Mode |-> Mode,
           Channels |-> IF numArgs >= 2 THEN ChannelMask(args[2], Mode) ELSE base.Channels,
           Colour |-> IF numArgs >= 3 THEN ChannelColour(args[3], base.Colour) ELSE base.Colour,
           Valid |-> TRUE])

OperationChannel(argsStr) ==
    CHOOSE o \in {ChannelParse(argsStr, a) : a \in {tExplode(argsStr, ",")}} : TRUE

(***************************************************************************)
(* Viewer::Image: the size of its pictures (W, H; 0 when it has none),     *)
(* the frame cursor, the number of frames, the number of undo steps        *)
(* pushed, the dirty flag and the pixel at (0, 0).  A world is the image   *)
(* and the primitive calls the running Apply has made on it.               *)
(***************************************************************************)
Picture(w, h, frames, frameNum, pixel) ==
    [W |-> w, H |-> h, NumFrames |-> frames, FrameNum |-> frameNum,
     Undo |-> 0, Dirty |-> FALSE, Pixel |-> pixel]

World(img) == [image |-> img, calls |-> <<>>]

Called(w, fn, a) == [w EXCEPT !.calls = Append(@, [fn |-> fn, a |-> a])]

\* PushUndo(desc); ...; Dirty = true;
Pushed(img) == [img EXCEPT !.Undo = @ + 1, !.Dirty = TRUE]

\* int Image::GetWidth / GetHeight: 0 without a valid picture.
GetWidth(img) == IF img.NumFrames > 0 THEN img.W ELSE 0
GetHeight(img) == IF img.NumFrames > 0 THEN img.H ELSE 0

\* tColouri Image::GetPixel(0, 0): black without a valid picture.
GetPixel(img) == IF img.NumFrames > 0 THEN img.Pixel ELSE black

\* The "at least one picture of a different size" test of Resample and Crop.
DifferentSize(img, newWidth, newHeight) ==
    img.NumFrames > 0 /\ ((img.W # newWidth) \/ (img.H # newHeight))

Resized(img, newWidth, newHeight) ==
    IF DifferentSize(img, newWidth, newHeight)
    THEN [Pushed(img) EXCEPT !.W = newWidth, !.H = newHeight]
    ELSE img

\* bool Image::Resample
Resample(w, newWidth, newHeight, filter, edgeMode) ==
    [Called(w, "Resample", <<newWidth, newHeight, filter, edgeMode>>)
        EXCEPT !.image = Resized(w.image, newWidth, newHeight)]

\* bool Image::Crop(newWidth, newHeight, originX, originY, fillColour)
CropOrigin(w, newWidth, newHeight, originX, originY, fillColour) ==
    [Called(w, "CropOrigin", <<newWidth, newHeight, originX, originY, fillColour>>)
        EXCEPT !.image = Resized(w.image, newWidth, newHeight)]

\* bool Image::Crop(newWidth, newHeight, anchor, fillColour)
CropAnchor(w, newWidth, newHeight, anchor, fillColour) ==
    [Called(w, "CropAnchor", <<newWidth, newHeight, anchor, fillColour>>)
        EXCEPT !.image = Resized(w.image, newWidth, newHeight)]

\* bool Image::Deborder: nothing happens unless a picture has borders of the
\* colour; trim is the border width found.
Deborder(w, borderColour, channels, trim) ==
    [Called(w, "Deborder", <<borderColour, channels>>)
        EXCEPT !.image =
            IF w.image.NumFrames > 0 /\ trim > 0
               /\ w.image.W > 2 * trim /\ w.image.H > 2 * trim
            THEN [Pushed(w.image) EXCEPT !.W = @ - 2 * trim, !.H = @ - 2 * trim]
            ELSE w.image]

\* void Image::Rotate90
Rotate90(w, antiClockWise) ==
    [Called(w, "Rotate90", <<antiClockWise>>)
        EXCEPT !.image = [Pushed(w.image) EXCEPT !.W = w.image.H, !.H = w.image.W]]

\* bool Image::Rotate: every picture becomes the bounding box of its rotation.
Rotate(w, angle, fill, upFilter, downFilter, box) ==
    [Called(w, "Rotate", <<angle, fill, upFilter, downFilter>>)
        EXCEPT !.image =
            IF angle.value = 0 THEN w.image
            ELSE IF w.image.NumFrames > 0
            THEN [Pushed(w.image) EXCEPT !.W = box[1], !.H = box[2]]
            ELSE Pushed(w.image)]

\* void Image::Flip
Flip(w, horizontal) ==
    [Called(w, "Flip", <<horizontal>>) EXCEPT !.image = Pushed(w.image)]

\* void Image::QuantizeFixed / QuantizeSpatial / QuantizeNeu / QuantizeWu
Quantize(w, fn, a) == [Called(w, fn, a) EXCEPT !.image = Pushed(w.image)]

\* bool Image::AdjustmentBegin: PushUndo("Levels") when loaded.
AdjustmentBegin(w) ==
    [Called(w, "AdjustmentBegin", <<>>)
        EXCEPT !.image = IF w.image.NumFrames > 0
                         THEN [w.image EXCEPT !.Undo = @ + 1] ELSE w.image]

\* void Image::AdjustLevels / AdjustContrast / AdjustBrightness: all
\* pictures, or the one under the frame cursor; Dirty = true.
Adjust(w, fn, a, allFrames) ==
    [Called(w, fn, a \o <<allFrames, w.image.FrameNum>>)
        EXCEPT !.image = [w.image EXCEPT !.Dirty = TRUE]]

\* bool Image::AdjustmentEnd
AdjustmentEnd(w) == Called(w, "AdjustmentEnd", <<>>)

\* A colour with the channels of the mask taken from another.
MaskedColour(old, new, channels) ==
    <<IF "R" \in channels THEN new[1] ELSE old[1],
      IF "G" \in channels THEN new[2] ELSE old[2],
      IF "B" \in channels THEN new[3] ELSE old[3],
      IF "A" \in channels THEN new[4] ELSE old[4]>>

\* void Image::SetAllPixels
SetAllPixels(w, colour, channels) ==
    [Called(w, "SetAllPixels", <<colour, channels>>)
        EXCEPT !.image = [Pushed(w.image) EXCEPT
                            !.Pixel = MaskedColour(@, colour, channels)]]

\* void Image::AlphaBlendColour
AlphaBlendColour(w, colour, channels, finalAlpha) ==
    [Called(w, "AlphaBlendColour", <<colour, channels, finalAlpha>>)
        EXCEPT !.image = Pushed(w.image)]

\* void Image::Spread: nothing unless channel is one colour component.
Spread(w, channel) ==
    [Called(w, "Spread", <<channel>>)
        EXCEPT !.image = IF Cardinality(channel) = 1 THEN Pushed(w.image) ELSE w.image]

\* void Image::Intensity
Intensity(w, channels) ==
    [Called(w, "Intensity", <<channels>>) EXCEPT !.image = Pushed(w.image)]

\* What Apply leaves: the world and the value returned.
Applied(w, r) == [image |-> w.image, calls |-> w.calls, ret |-> r]

(***************************************************************************)
(* Operations: Apply                                                       *)
(***************************************************************************)
\* a / b as C++ divides ints: truncation toward zero (b > 0).
IntDiv(a, b) == IF a >= 0 THEN a \div b ELSE 0 - ((0 - a) \div b)

\* AspectPreserve rounding the quotient to the nearest integer.
AspectPreserveRounded(Width, Height, srcW, srcH) ==
    LET aspect == F32Div(F32FromInt(srcW), F32FromInt(srcH)) IN
    IF Width <= 0
    THEN [dstW |-> tFloatToInt(F32Mul(F32FromInt(Height), aspect)), dstH |-> Height]
    ELSE IF Height <= 0
    THEN [dstW |-> Width, dstH |-> tFloatToInt(F32Div(F32FromInt(Width), aspect))]
    ELSE [dstW |-> Width, dstH |-> Height]

\* The target size of Resize and Canvas before the clamp: a dimension that
\* is not given comes from the other one and the source aspect.
AspectPreserve(Width, Height, srcW, srcH) ==
    LET aspect == F32Div(F32FromInt(srcW), F32FromInt(srcH)) IN
    IF Width <= 0
    THEN [dstW |-> F32ToInt(F32Mul(F32FromInt(Height), aspect)), dstH |-> Height]
    ELSE IF Height <= 0
    THEN [dstW |-> Width, dstH |-> F32ToInt(F32Div(F32FromInt(Width), aspect))]
    ELSE [dstW |-> Width, dstH |-> Height]

\* The target size kept from falling under 4, with no upper limit.
ClampDimsFromBelow(d) == [dstW |-> tClampMin(d.dstW, 4), dstH |-> tClampMin(d.dstH, 4)]

\* tMath::tiClamp(dstW, 4, 32768); tMath::tiClamp(dstH, 4, 32768);
ClampDims(d) == [dstW |-> tClamp(d.dstW, 4, 32768), dstH |-> tClamp(d.dstH, 4, 32768)]

ResizeApply(o, img) ==
    LET srcW == GetWidth(img)
        srcH == GetHeight(img)
        d == ClampDims(AspectPreserve(o.Width, o.Height, srcW, srcH))
    IN  IF (srcW <= 0) \/ (srcH <= 0) THEN Applied(World(img), FALSE)
        ELSE IF (srcW = d.dstW) /\ (srcH = d.dstH) THEN Applied(World(img), TRUE)
        ELSE Applied(Resample(World(img), d.dstW, d.dstH, o.ResampleFilter, o.EdgeMode), TRUE)

Abs(v) == IF v < 0 THEN 0 - v ELSE v

\* A 32 bit word as <<high half, low half>>, each half in 0 .. 65535.
U32(v) == <<v \div 65536, v % 65536>>

U32Add(x, y) ==
    LET lo == x[2] + y[2] IN <<(x[1] + y[1] + (lo \div 65536)) % 65536, lo % 65536>>

RECURSIVE U32Mul(_, _)
\* x * n modulo 2^32, by doubling.
U32Mul(x, n) ==
    IF n = 0 THEN <<0, 0>>
    ELSE LET rest == U32Mul(U32Add(x, x), n \div 2)
         IN  IF n % 2 = 1 THEN U32Add(x, rest) ELSE rest

\* Two's complement negation.
U32Neg(x) == U32Add(<<65535 - x[1], 65535 - x[2]>>, <<0, 1>>)

\* The int a 32 bit word stands for.
S32(x) == (IF x[1] >= 32768 THEN x[1] - 65536 ELSE x[1]) * 65536 + x[2]

\* Whether a * b leaves the range of int.  The product -2^31 fits.
IntMulOverflows(a, b) ==
    /\ a # 0 /\ b # 0
    /\ Abs(a) > 2147483647 \div Abs(b)
    /\ ~ /\ (a < 0) # (b < 0)
         /\ 1073741824 % Abs(b) = 0
         /\ Abs(a) = 2 * (1073741824 \div Abs(b))

\* a * b on ints: the product where it fits; where it does not the
\* behaviour is undefined, and a build that does not trap leaves the low 32
\* bits of the product.
IntMulVal(a, b) ==
    LET u == U32Mul(U32(Abs(a)), Abs(b))
    IN  S32(IF (a < 0) # (b < 0) THEN U32Neg(u) ELSE u)

IntMul(a, b) == CHOOSE r \in {IntMulVal(av, bv) : av \in {a}, bv \in {b}} : TRUE

\* The crop of Canvas and Aspect: at the origin the anchor coordinates give
\* when both are there, else at the named anchor.
AnchoredCrop(o, w, srcW, srcH, dstW, dstH) ==
    IF (o.AnchorX >= 0) /\ (o.AnchorY >= 0)
    THEN CropOrigin(w, dstW, dstH,
                    IntDiv(IntMul(o.AnchorX, srcW - dstW), srcW),
                    IntDiv(IntMul(o.AnchorY, srcH - dstH), srcH), o.FillColour)
    ELSE CropAnchor(w, dstW, dstH, o.Anchor, o.FillColour)

CanvasApply(o, img) ==
    LET srcW == GetWidth(img)
        srcH == GetHeight(img)
        d == ClampDims(AspectPreserve(o.Width, o.Height, srcW, srcH))
    IN  IF (srcW <= 0) \/ (srcH <= 0) THEN Applied(World(img), FALSE)
        ELSE IF (srcW = d.dstW) /\ (srcH = d.dstH) THEN Applied(World(img), TRUE)
        ELSE Applied(AnchoredCrop(o, World(img), srcW, srcH, d.dstW, d.dstH), TRUE)

\* The target size of Aspect with the quotient and product cut to an integer.
AspectDimsTruncated(Num, Den, Mode, srcW, srcH) ==
    LET srcAspect == F32Div(F32FromInt(srcW), F32FromInt(srcH))
        dstAspect == F32Div(F32FromInt(Num), F32FromInt(Den))
        byW == F32ToInt(F32Div(F32FromInt(srcW), dstAspect))
        byH == F32ToInt(F32Mul(F32FromInt(srcH), dstAspect))
    IN  IF Mode = "Crop"
        THEN (IF F32Less(srcAspect, dstAspect) THEN [dstW |-> srcW, dstH |-> byW]
              ELSE IF F32Less(dstAspect, srcAspect) THEN [dstW |-> byH, dstH |-> srcH]
              ELSE [dstW |-> srcW, dstH |-> srcH])
        ELSE (IF F32Less(srcAspect, dstAspect) THEN [dstW |-> byH, dstH |-> srcH]
              ELSE IF F32Less(dstAspect, srcAspect) THEN [dstW |-> srcW, dstH |-> byW]
              ELSE [dstW |-> srcW, dstH |-> srcH])

\* The target size of Aspect.
AspectDims(Num, Den, Mode, srcW, srcH) ==
    LET srcAspect == F32Div(F32FromInt(srcW), F32FromInt(srcH))
        dstAspect == F32Div(F32FromInt(Num), F32FromInt(Den))
        byW == tFloatToInt(F32Div(F32FromInt(srcW), dstAspect))
        byH == tFloatToInt(F32Mul(F32FromInt(srcH), dstAspect))
    IN  IF Mode = "Crop"
        THEN (IF F32Less(srcAspect, dstAspect) THEN [dstW |-> srcW, dstH |-> byW]
              ELSE IF F32Less(dstAspect, srcAspect) THEN [dstW |-> byH, dstH |-> srcH]
              ELSE [dstW |-> srcW, dstH |-> srcH])
        ELSE (IF F32Less(srcAspect, dstAspect) THEN [dstW |-> byH, dstH |-> srcH]
              ELSE IF F32Less(dstAspect, srcAspect) THEN [dstW |-> srcW, dstH |-> byW]
              ELSE [dstW |-> srcW, dstH |-> srcH])

AspectApply(o, img) ==
    LET srcW == GetWidth(img)
        srcH == GetHeight(img)
        d == AspectDims(o.Num, o.Den, o.Mode, srcW, srcH)
    IN  IF (srcW <= 0) \/ (srcH <= 0) THEN Applied(World(img), FALSE)
        ELSE IF (srcW = d.dstW) /\ (srcH = d.dstH) THEN Applied(World(img), TRUE)
        ELSE Applied(AnchoredCrop(o, World(img), srcW, srcH, d.dstW, d.dstH), TRUE)

\* Deborder Apply testing against the colour the constructor left, never the
\* image's own pixel.
DeborderApplyStoredColour(o, img, trim) ==
    Applied(Deborder(World(img), o.TestColour, o.Channels, trim), TRUE)

DeborderApply(o, img, trim) ==
    LET testCol == IF ~o.UseTestColour THEN GetPixel(img) ELSE o.TestColour
    IN  Applied(Deborder(World(img), testCol, o.Channels, trim), TRUE)

\* Crop Apply taking the far corner of Absolute mode for a size.
CropApplyCornerAsSize(o, img) ==
    Applied(CropOrigin(World(img), o.WidthOrMaxX, o.HeightOrMaxY, o.OriginX, o.OriginY,
                       o.FillColour), TRUE)

CropApply(o, img) ==
    LET newW == IF o.Mode = "Absolute" THEN o.WidthOrMaxX + 1 - o.OriginX ELSE o.WidthOrMaxX
        newH == IF o.Mode = "Absolute" THEN o.HeightOrMaxY + 1 - o.OriginY ELSE o.HeightOrMaxY
    IN  Applied(CropOrigin(World(img), newW, newH, o.OriginX, o.OriginY, o.FillColour), TRUE)

FlipApply(o, img) == Applied(Flip(World(img), o.Mode = "Horizontal"), TRUE)


\* |cos| and |sin| of the angle Rotate is given, in 1/10000; <<>> for an
\* angle this table does not list.
Trig(angle) ==
    LET v == IF angle.value < 0 THEN 0 - angle.value ELSE angle.value IN
    IF angle.radians THEN (IF v = One THEN <<5403, 8415>> ELSE <<>>)
    ELSE IF v = 10 * One THEN <<9848, 1736>>
    ELSE IF v = 30 * One THEN <<8660, 5000>>
    ELSE IF v = 45 * One THEN <<7071, 7071>>
    ELSE IF v = 60 * One THEN <<5000, 8660>>
    ELSE IF v = 90 * One THEN <<0, One>>
    ELSE <<>>

\* An extent of the rotated rectangle, in 1/10000, as whole pixels: rounded
\* down, to the nearest, up, or up to the next even number.
Extent(x, rounding) ==
    IF rounding = "down" THEN x \div One
    ELSE IF rounding = "nearest" THEN (x + One \div 2) \div One
    ELSE IF rounding = "up" THEN (x + One - 1) \div One
    ELSE 2 * ((x + 2 * One - 1) \div (2 * One))

Roundings == {"down", "nearest", "up", "even"}

\* The sizes the picture may have after Image::Rotate: the bounding box of
\* the W x H rectangle turned by the angle, both extents rounded the same
\* way and never below one pixel; any box between the rectangle and its
\* diagonal square for an angle Trig does not list.
RotatedBoxes(W, H, angle) ==
    LET t == Trig(angle)
        lo == IF W < H THEN W ELSE H
    IN  IF (W = 0) \/ (H = 0) \/ (angle.value = 0) THEN {<<W, H>>}
        ELSE IF t = <<>> THEN (lo .. W + H) \X (lo .. W + H)
        ELSE {<<tClampMin(Extent(W * t[1] + H * t[2], r), 1),
                tClampMin(Extent(W * t[2] + H * t[1], r), 1)>> : r \in Roundings}

\* RotateCropDims without the halving of a side the box outgrew by more
\* than half.
RotateCropDimsUnhalved(srcW, srcH, rotW, rotH) ==
    LET aspectFlip == ((srcW > srcH) /\ (rotW < rotH)) \/ ((srcW < srcH) /\ (rotW > rotH))
        origW == IF aspectFlip THEN srcH ELSE srcW
        origH == IF aspectFlip THEN srcW ELSE srcH
    IN  [origW |-> origW, origH |-> origH,
         newW |-> origW - (rotW - origW), newH |-> origH - (rotH - origH)]

\* The size the re-crop of Rotate gives, from the size before the rotation
\* and the size after it.
RotateCropDims(srcW, srcH, rotW, rotH) ==
    LET aspectFlip == ((srcW > srcH) /\ (rotW < rotH)) \/ ((srcW < srcH) /\ (rotW > rotH))
        origW == IF aspectFlip THEN srcH ELSE srcW
        origH == IF aspectFlip THEN srcW ELSE srcH
        dx == rotW - origW
        dy == rotH - origH
    IN  IF dx > origW \div 2
        THEN LET newW == origW - origW \div 2
             IN  [origW |-> origW, origH |-> origH, newW |-> newW,
                  newH |-> IntDiv(newW * origH, origW)]
        ELSE IF dy > origH \div 2
        THEN LET newH == origH - origH \div 2
             IN  [origW |-> origW, origH |-> origH,
                  newW |-> IntDiv(newH * origW, origH), newH |-> newH]
        ELSE [origW |-> origW, origH |-> origH, newW |-> origW - dx, newH |-> origH - dy]

\* image.Crop(newW, newH, Anchor::MiddleMiddle) names no fill colour: <<>>.
RotateApply(o, img, box) ==
    IF o.Exact = "Zero" THEN Applied(World(img), TRUE)
    ELSE IF o.Exact = "ACW90" THEN Applied(Rotate90(World(img), TRUE), TRUE)
    ELSE IF o.Exact = "CW90" THEN Applied(Rotate90(World(img), FALSE), TRUE)
    ELSE IF o.Exact = "R180"
    THEN Applied(Rotate90(Rotate90(World(img), TRUE), TRUE), TRUE)
    ELSE LET rotated == Rotate(World(img), o.Angle, o.FillColour, o.FilterUp, o.FilterDown, box)
             d == RotateCropDims(GetWidth(img), GetHeight(img),
                                 GetWidth(rotated.image), GetHeight(rotated.image))
             cropped == IF o.Mode \in {"Crop", "Resize"}
                        THEN CropAnchor(rotated, d.newW, d.newH, "MiddleMiddle", <<>>)
                        ELSE rotated
             filter == IF o.FilterUp # "none" THEN o.FilterUp ELSE "nearest"
         IN  IF o.Mode = "Resize"
             THEN Applied(Resample(cropped, d.origW, d.origH, filter, "clamp"), TRUE)
             ELSE Applied(cropped, TRUE)

\* The frame scoping of Levels, Contrast and Brightness: the cursor is put
\* on the frame asked for while the adjustment runs, then put back.
Scoped(img, FrameNumber) ==
    IF FrameNumber > -1
    THEN [img EXCEPT !.FrameNum = tClampMax(FrameNumber, img.NumFrames - 1)]
    ELSE img

Adjusted(img, FrameNumber, fn, a) ==
    LET w == AdjustmentEnd(Adjust(AdjustmentBegin(World(Scoped(img, FrameNumber))),
                                  fn, a, ~(FrameNumber > -1)))
    IN  Applied([w EXCEPT !.image.FrameNum = img.FrameNum], TRUE)

\* LevelsAtDefault taking 0 for the default mid point.
LevelsAtDefaultMidZero(o) ==
    (o.BlackPoint = 0) /\ (o.MidPoint = 0) /\ (o.WhitePoint = One)
    /\ (o.OutBlackPoint = 0) /\ (o.OutWhitePoint = One)

\* "All point levels at default."
LevelsAtDefault(o) ==
    (o.BlackPoint = 0) /\ (o.MidPoint = One \div 2) /\ (o.WhitePoint = One)
    /\ (o.OutBlackPoint = 0) /\ (o.OutWhitePoint = One)

LevelsApply(o, img) ==
    IF LevelsAtDefault(o)
    THEN Applied(World(img), TRUE)
    ELSE Adjusted(img, o.FrameNumber, "AdjustLevels",
                  <<o.BlackPoint, o.MidPoint, o.WhitePoint, o.OutBlackPoint,
                    o.OutWhitePoint, o.PowerMidGamma, o.Channels>>)

ContrastApply(o, img) ==
    IF o.Contrast = One \div 2 THEN Applied(World(img), TRUE)
    ELSE Adjusted(img, o.FrameNumber, "AdjustContrast", <<o.Contrast, o.Channels>>)

BrightnessApply(o, img) ==
    IF o.Brightness = One \div 2 THEN Applied(World(img), TRUE)
    ELSE Adjusted(img, o.FrameNumber, "AdjustBrightness", <<o.Brightness, o.Channels>>)

QuantizeApply(o, img) ==
    IF o.Method = "Fixed"
    THEN Applied(Quantize(World(img), "QuantizeFixed", <<o.NumColours, o.CheckExact>>), TRUE)
    ELSE IF o.Method = "Spatial"
    THEN Applied(Quantize(World(img), "QuantizeSpatial",
                          <<o.NumColours, o.CheckExact, o.Dither, o.SampFilt>>), TRUE)
    ELSE IF o.Method = "Neu"
    THEN Applied(Quantize(World(img), "QuantizeNeu",
                          <<o.NumColours, o.CheckExact, o.SampFilt>>), TRUE)
    ELSE Applied(Quantize(World(img), "QuantizeWu", <<o.NumColours, o.CheckExact>>), TRUE)

\* Channel Apply handing the colour's alpha on as the final alpha whatever
\* the mask.
ChannelApplyAlphaAlways(o, img) ==
    IF o.Mode = "Set" THEN Applied(SetAllPixels(World(img), o.Colour, o.Channels), TRUE)
    ELSE IF o.Mode = "Blend"
    THEN Applied(AlphaBlendColour(World(img), o.Colour, o.Channels, o.Colour[4]), TRUE)
    ELSE IF o.Mode = "Spread" THEN Applied(Spread(World(img), o.Channels), TRUE)
    ELSE Applied(Intensity(World(img), o.Channels), TRUE)

ChannelApply(o, img) ==
    IF o.Mode = "Set" THEN Applied(SetAllPixels(World(img), o.Colour, o.Channels), TRUE)
    ELSE IF o.Mode = "Blend"
    THEN Applied(AlphaBlendColour(World(img), o.Colour, o.Channels,
                                  IF "A" \in o.Channels THEN o.Colour[4] ELSE -1), TRUE)
    ELSE IF o.Mode = "Spread" THEN Applied(Spread(World(img), o.Channels), TRUE)
    ELSE Applied(Intensity(World(img), o.Channels), TRUE)


(***************************************************************************)
(* The descriptors and images explored                                     *)
(***************************************************************************)
\* Frames an image has at most.
MaxFrames == 2
\* Times one operation is applied at most.
MaxApplies == 2
\* The widest border Deborder finds.
MaxTrim == 1
\* Largest side of a source image, and largest dimension asked for, where
\* Resize is explored over every size.
MaxSide == 7
MaxDim == 7
\* Largest side of a source image where Rotate is explored over every size.
MaxRotSide == 10

RECURSIVE Join(_)
\* The descriptor made of the tokens.
Join(toks) ==
    IF toks = <<>> THEN ""
    ELSE IF Len(toks) = 1 THEN toks[1]
    ELSE toks[1] \o "," \o Join(Tail(toks))

\* The descriptors got from a full one by cutting it short, or by putting
\* another token in one slot.
Descriptors(base, alts) ==
    {Join(SubSeq(base, 1, n)) : n \in 0 .. Len(base)}
    \cup {Join([base EXCEPT ![c[1]] = c[2]]) : c \in alts}

ColourTokens ==
    {"black", "white", "grey", "red", "green", "blue", "yellow", "cyan", "magenta",
     "transparent", "trans", "GREEN", "White", "*", "#10203040", "bogus"}

AnchorTokens == {"tl", "tm", "tr", "ml", "mm", "mr", "bl", "bm", "br", "TL", "Br", "*"}

ResizeArgs ==
    Descriptors(<<"8", "6", "box", "wrap">>,
                ({1, 2} \X {"*", "0", "3"})
                \cup ({3} \X {"BOX", "Nearest", "nearest", "*", "bogus"})
                \cup ({4} \X {"WRAP", "Wrap", "clamp", "*"}))
    \cup {"*,0", "0,-2,box", "*,12", "12,*", ",", "40000,*", "*,40000", "3,40000", "8,8",
          "12,5", "1000,1000", "8,*", "2,*"}

CanvasArgs ==
    Descriptors(<<"8", "12", "tl", "white", "2", "3">>,
                ({1, 2} \X {"*", "0"}) \cup ({3} \X AnchorTokens)
                \cup ({4} \X ColourTokens) \cup ({5, 6} \X {"*", "0"}))
    \cup {"*,*", "0,0,tl", "8,12,*,*", "40000,*", "*,40000", "3,40000", "8,8", "12,5",
          "1000,1000,br,red,3,3", "8,*", "2,*", "40000,2,tr"}

AspectArgs ==
    Descriptors(<<"2:1", "letter", "tl", "white", "2", "3">>,
                ({1} \X {"*", "1:1", "3"}) \cup ({2} \X {"crop", "CROP", "LETTER", "Letter", "*"})
                \cup ({3} \X AnchorTokens) \cup ({4} \X ColourTokens)
                \cup ({5, 6} \X {"*"}))
    \cup {"16:9,crop,mm", "16:9,letter,mm", "16:9,crop", "20:1,crop", "1:20,crop",
          "20:1,letter", "1:20,letter,tl,red,0,0", "3:1,crop,tl,red,0,0"}
    \cup {Join(<<r, "crop">>) :
            r \in {"abc:def", "0:0", "-4:3", "4:-3", ":9", "16:", "4:3:2", "*:*", "4:*",
                   "*:3", ":", "4:3", "1:1", "5:0", "x:5", "21:9:"}}

DeborderArgs ==
    Descriptors(<<"white", "rg">>,
                ({1} \X ColourTokens) \cup ({2} \X {"*", "RG", "a", "x"}))

CropArgs ==
    Descriptors(<<"rel", "1", "2", "6", "5", "white">>,
                ({1} \X {"abs", "ABS", "REL", "Rel", "*"})
                \cup ({2, 3} \X {"*", "0", "-1"}) \cup ({4, 5} \X {"*", "3", "4"})
                \cup ({6} \X ColourTokens))
    \cup {"abs,1,1,4,4", "abs,1,1,3,4", "abs,0,0,*,*", "*,*,*,*,*,*", "rel,0,0,*,*",
          "abs,0,0,99,99", "abs,2,3,20,9,red", "rel,0,0,99,50", "abs,2,0,4,9",
          "abs,2,0,5,9", "abs,0,5,9,7", "abs,0,5,9,8", "rel,9,9,4,4"}

FlipArgs == Descriptors(<<"v">>, {1} \X {"h", "H", "V", "vertical", "Vertical", "*", "x"})

ExactTokens ==
    {"90", "90.0", "acw", "ccw", "-90", "-90.0", "cw", "180", "180.0", "*", "0.0", "0",
     "-0.0", "0r", "x", "ACW", "CW"}

RotateArgs ==
    Descriptors(<<"45", "fill", "box", "bilinear", "white">>,
                ({1} \X (ExactTokens \cup {"30", "-45", "1r", "90.00"}))
                \cup ({2} \X {"crop", "resize", "FILL", "Resize", "*"})
                \cup ({3} \X {"none", "BOX", "*"}) \cup ({4} \X {"none", "BOX", "*"})
                \cup ({5} \X ColourTokens))
    \cup ExactTokens

LevelsArgs ==
    Descriptors(<<"0.2", "0.4", "0.8", "0.1", "0.9", "1", "g", "true">>,
                ({1, 3} \X {"*", "0", "1", "2", "-1", "x"})
                \cup ({2} \X {"*", "0.1", "0.9", "-0.5", "-1", "2", "x", "0"})
                \cup ({4, 5} \X {"*", "0.5", "0.95", "0.05", "-3", "7"})
                \cup ({6} \X {"*", "0", "5", "-2"})
                \cup ({7} \X {"*", "G", "rgb", "RGB", "x"}) \cup ({8} \X {"*", "false"}))
    \cup Descriptors(<<"0", "0.5", "1", "0", "1", "1", "g", "true">>,
                     ({2, 4, 5, 6} \X {"*"}) \cup ({1} \X {"0.0"}) \cup ({3} \X {"1.0", "3"}))

ContrastArgs ==
    Descriptors(<<"0.7", "1", "g">>,
                ({1} \X {"*", "0.5", "0.50", "0", "2"}) \cup ({2} \X {"*", "0", "5", "-2"})
                \cup ({3} \X {"*", "G", "rgb", "x"}))
    \cup {"0.5,1,g", "0.5,*", "*,1,g", "*,0"}

BrightnessArgs == ContrastArgs

QuantizeArgs ==
    Descriptors(<<"spc", "16", "true", "5", "2.5">>,
                ({1} \X {"fix", "neu", "wu", "*", "WU", "Fix", "SPC", "x"})
                \cup ({2} \X {"*", "1", "300"}) \cup ({3} \X {"*", "false"})
                \cup ({4} \X {"*", "1", "2", "3", "4", "0", "-1", "7", "x"})
                \cup ({5} \X {"*", "0", "40"}))
    \cup {"neu,16,true,*", "neu,16,true,40", "neu,*", "wu,*", "fix,*,*", "spc,*", "spc,8,*,4", "neu,16,true,0",
          "neu,0,true,-3,7", "wu,16,false,5,40", "spc,16,true,5,-2", "neu,2", "spc,257"}

ChannelArgs ==
    Descriptors(<<"set", "rg", "white">>,
                ({1} \X {"blend", "spread", "intens", "*", "SET", "Spread", "x"})
                \cup ({2} \X {"*", "RG", "a", "ba", "x"})
                \cup ({3} \X (ColourTokens \cup {"128", "300"})))
    \cup {"blend,*,white", "blend,a,#10203040", "spread,*", "spread,ba", "intens,*", "set,*",
          "spread", "spread,r", "spread,rg", "spread,x", "blend,rgba,#FF000080",
          "blend,rgb,#FF000080", "blend", "intens", "set,*a", "intens,x", "*,*", "bogus,*",
          "*,x", "spread,*a"}

\* What the read of an argument the descriptor does not have may yield.
Garbage == {"", "0.25"}

\* The image before it is loaded has no picture.
EmptyImage == Picture(0, 0, 0, 0, black)

Sizes == {<<8, 8>>, <<12, 5>>, <<1000, 1000>>}

Images ==
    {EmptyImage}
    \cup UNION {{Picture(s[1], s[2], f, n, white) : s \in Sizes, n \in 0 .. f - 1} :
                 f \in 1 .. MaxFrames}

\* A dimension token: "*" for none.
DimToken(n) == IF n = 0 THEN "*" ELSE ToString(n)

ResizeDimArgs == {Join(<<DimToken(w), DimToken(h)>>) : w, h \in 0 .. MaxDim}

ResizeImages == {Picture(w, h, 1, 0, white) : w, h \in 1 .. MaxSide}

RotateDimArgs ==
    {"45,crop", "45", "-45,crop", "45,resize", "45,fill", "30,crop", "90.00,crop", "1r",
     "60,resize", "30,resize", "1r,resize", "30,resize,box", "30,resize,none",
     "30,resize,*", "60,resize,bilinear,box", "30,resize,NEAREST"}

RotateImages == {Picture(w, h, 1, 0, white) : w, h \in 1 .. MaxRotSide} \cup {EmptyImage}


(***************************************************************************)
(* The state machine.  pc is "idle" before an operation is constructed,    *)
(* "built" once a constructor has returned, "applied" after Apply,         *)
(* "dropped" when the operation was left out for being invalid and         *)
(* "crashed" when a constructor ended the process.                         *)
(***************************************************************************)
Init ==
    /\ pc = "idle"
    /\ op = NoOperation
    /\ image \in Images
    /\ calls = <<>>
    /\ ret = TRUE
    /\ before = image
    /\ nops = 0

\* A constructor that reads only arguments the descriptor has.
Built(o) ==
    /\ pc' = "built"
    /\ op' = o
    /\ UNCHANGED <<image, calls, ret, before, nops>>

\* A constructor that reads its leading arguments whether or not they are
\* there: where one is absent the process ends, or the read yields g.
BuiltUnchecked(o, g, crash) ==
    /\ crash => o.ub
    /\ ~o.ub => g = ""
    /\ pc' = IF crash THEN "crashed" ELSE "built"
    /\ op' = IF crash THEN Operation(o.kind, o.args) ELSE o
    /\ UNCHANGED <<image, calls, ret, before, nops>>

ConstructResize == pc = "idle" /\ \E a \in ResizeArgs : Built(OperationResize(a))
ConstructCanvas == pc = "idle" /\ \E a \in CanvasArgs : Built(OperationCanvas(a))
ConstructAspect == pc = "idle" /\ \E a \in AspectArgs : Built(OperationAspect(a))
ConstructDeborder == pc = "idle" /\ \E a \in DeborderArgs : Built(OperationDeborder(a))
ConstructCrop == pc = "idle" /\ \E a \in CropArgs : Built(OperationCrop(a))
ConstructFlip == pc = "idle" /\ \E a \in FlipArgs : Built(OperationFlip(a))
ConstructRotate == pc = "idle" /\ \E a \in RotateArgs : Built(OperationRotate(a))
ConstructChannel == pc = "idle" /\ \E a \in ChannelArgs : Built(OperationChannel(a))

ConstructLevels ==
    /\ pc = "idle"
    /\ \E a \in LevelsArgs, g \in Garbage, crash \in BOOLEAN :
          \E o \in {OperationLevels(a, g)} : BuiltUnchecked(o, g, crash)

ConstructContrast ==
    /\ pc = "idle"
    /\ \E a \in ContrastArgs, g \in Garbage, crash \in BOOLEAN :
          \E o \in {OperationContrast(a, g)} : BuiltUnchecked(o, g, crash)

ConstructBrightness ==
    /\ pc = "idle"
    /\ \E a \in BrightnessArgs, g \in Garbage, crash \in BOOLEAN :
          \E o \in {OperationBrightness(a, g)} : BuiltUnchecked(o, g, crash)

ConstructQuantize ==
    /\ pc = "idle"
    /\ \E a \in QuantizeArgs, g \in Garbage, crash \in BOOLEAN :
          \E o \in {OperationQuantize(a, g)} : BuiltUnchecked(o, g, crash)

\* An operation that is not valid is left out of what is applied.
Discard ==
    /\ pc = "built"
    /\ ~op.Valid
    /\ pc' = "dropped"
    /\ UNCHANGED <<op, image, calls, ret, before, nops>>

\* Apply of the operation of the kind, entered with Valid true.
Entered(kind) ==
    /\ pc \in {"built", "applied"}
    /\ op.kind = kind
    /\ op.Valid
    /\ nops < MaxApplies

Returned(r) ==
    /\ pc' = "applied"
    /\ image' = r.image
    /\ calls' = r.calls
    /\ ret' = r.ret
    /\ before' = image
    /\ nops' = nops + 1
    /\ UNCHANGED op

ApplyResize == Entered("Resize") /\ \E r \in {ResizeApply(op, image)} : Returned(r)
\* Whether Apply of Canvas or Aspect reaches the explicit-coordinate crop with
\* a product of anchor and size difference that leaves the range of int.
AnchorOverflow(o, img) ==
    LET srcW == GetWidth(img)
        srcH == GetHeight(img)
        d == IF o.kind = "Canvas"
             THEN ClampDims(AspectPreserve(o.Width, o.Height, srcW, srcH))
             ELSE AspectDims(o.Num, o.Den, o.Mode, srcW, srcH)
    IN  /\ srcW > 0 /\ srcH > 0
        /\ ~((srcW = d.dstW) /\ (srcH = d.dstH))
        /\ (o.AnchorX >= 0) /\ (o.AnchorY >= 0)
        /\ \/ IntMulOverflows(o.AnchorX, srcW - d.dstW)
           \/ IntMulOverflows(o.AnchorY, srcH - d.dstH)

\* Apply ended the process: a build that traps on signed overflow.
Trapped ==
    /\ pc' = "crashed"
    /\ UNCHANGED <<op, image, calls, ret, before, nops>>

ApplyCanvas ==
    /\ Entered("Canvas")
    /\ \E trap \in {FALSE, AnchorOverflow(op, image)} :
          IF trap THEN Trapped ELSE \E r \in {CanvasApply(op, image)} : Returned(r)
ApplyAspect ==
    /\ Entered("Aspect")
    /\ \E trap \in {FALSE, AnchorOverflow(op, image)} :
          IF trap THEN Trapped ELSE \E r \in {AspectApply(op, image)} : Returned(r)
ApplyDeborder ==
    Entered("Deborder") /\ \E trim \in 0 .. MaxTrim : Returned(DeborderApply(op, image, trim))
ApplyCrop == Entered("Crop") /\ \E r \in {CropApply(op, image)} : Returned(r)
ApplyFlip == Entered("Flip") /\ \E r \in {FlipApply(op, image)} : Returned(r)
ApplyRotate ==
    /\ Entered("Rotate")
    /\ \E box \in RotatedBoxes(GetWidth(image), GetHeight(image), op.Angle) :
          \E r \in {RotateApply(op, image, box)} : Returned(r)
ApplyLevels == Entered("Levels") /\ \E r \in {LevelsApply(op, image)} : Returned(r)
ApplyContrast == Entered("Contrast") /\ \E r \in {ContrastApply(op, image)} : Returned(r)
ApplyBrightness == Entered("Brightness") /\ \E r \in {BrightnessApply(op, image)} : Returned(r)
ApplyQuantize == Entered("Quantize") /\ \E r \in {QuantizeApply(op, image)} : Returned(r)
ApplyChannel == Entered("Channel") /\ \E r \in {ChannelApply(op, image)} : Returned(r)

\* Whether the Apply that has just returned printed its line: every path of
\* every Apply that returns true prints one ("... | primitive[...]" or
\* "... not applied ..."), and the paths that return false print nothing.
ApplyPrinted == pc = "applied" /\ ret

Next ==
    \/ ConstructResize
    \/ ConstructCanvas
    \/ ConstructAspect
    \/ ConstructDeborder
    \/ ConstructCrop
    \/ ConstructFlip
    \/ ConstructRotate
    \/ ConstructLevels
    \/ ConstructContrast
    \/ ConstructBrightness
    \/ ConstructQuantize
    \/ ConstructChannel
    \/ Discard
    \/ ApplyResize
    \/ ApplyCanvas
    \/ ApplyAspect
    \/ ApplyDeborder
    \/ ApplyCrop
    \/ ApplyFlip
    \/ ApplyRotate
    \/ ApplyLevels
    \/ ApplyContrast
    \/ ApplyBrightness
    \/ ApplyQuantize
    \/ ApplyChannel

Spec == Init /\ [][Next]_vars

(***************************************************************************)
(* Resize over every source size and every pair of dimensions asked for.   *)
(***************************************************************************)
InitResize ==
    /\ pc = "idle"
    /\ op = NoOperation
    /\ image \in ResizeImages
    /\ calls = <<>>
    /\ ret = TRUE
    /\ before = image
    /\ nops = 0

ConstructResizeDims == pc = "idle" /\ \E a \in ResizeDimArgs : Built(OperationResize(a))

NextResize ==
    \/ ConstructResizeDims
    \/ Discard
    \/ ApplyResize

SpecResize == InitResize /\ [][NextResize]_vars

(***************************************************************************)
(* Rotate by an angle over every source size.                              *)
(***************************************************************************)
InitRotate ==
    /\ pc = "idle"
    /\ op = NoOperation
    /\ image \in RotateImages
    /\ calls = <<>>
    /\ ret = TRUE
    /\ before = image
    /\ nops = 0

ConstructRotateAngle == pc = "idle" /\ \E a \in RotateDimArgs : Built(OperationRotate(a))

NextRotate ==
    \/ ConstructRotateAngle
    \/ ApplyRotate

SpecRotate == InitRotate /\ [][NextRotate]_vars


(***************************************************************************)
(* Properties                                                              *)
(***************************************************************************)
\* The tokens of the descriptor the operation was built from.
Args == tExplode(op.args, ",")

\* The rejections the constructors make, read off the descriptor's tokens.
Rejected(kind, args) ==
    LET n == Len(args) IN
    IF kind \in {"Resize", "Canvas"}
    THEN (n < 2) \/ ((AsInt32(args[1]) <= 0) /\ (AsInt32(args[2]) <= 0))
    ELSE IF kind = "Aspect" THEN n < 2
    ELSE IF kind = "Rotate" THEN n < 1
    ELSE IF kind = "Crop"
    THEN (n < 5)
         \/ (AsInt32(args[2]) < 0) \/ (AsInt32(args[3]) < 0)
         \/ LET relative == args[1] = "rel"
                maxX == IF AsInt32(args[4]) <= 0 THEN (IF relative THEN 4 ELSE 3)
                        ELSE AsInt32(args[4])
                maxY == IF AsInt32(args[5]) <= 0 THEN (IF relative THEN 4 ELSE 3)
                        ELSE AsInt32(args[5])
            IN  IF relative THEN (maxX < 4) \/ (maxY < 4)
                ELSE (maxX + 1 - AsInt32(args[2]) < 4) \/ (maxY + 1 - AsInt32(args[3]) < 4)
    ELSE FALSE

\* C1: an operation a constructor has returned has Valid true exactly when
\* the construction hit no rejection (too few arguments for Resize, Canvas,
\* Aspect, Crop, Rotate; both dimensions non-positive for Resize, Canvas; a
\* negative Crop origin; a Crop extent below 4), a rejection leaves a
\* diagnostic, and Apply has only run on an operation with Valid true.
ValidIffConstructed ==
    /\ pc \in {"built", "applied", "dropped"} =>
          /\ op.Valid <=> ~Rejected(op.kind, Args)
          /\ op.Valid <=> (op.diag = "")
    /\ pc = "applied" => op.Valid

\* C1 happens: the Crop constructor has returned from a descriptor of five
\* tokens with a negative origin.
ValidIffConstructedWitness ==
    /\ pc = "built"
    /\ op.kind = "Crop"
    /\ Len(Args) >= 5
    /\ op.OriginX < 0
    /\ ~op.Valid

\* The operations whose constructors read leading arguments: how many.
Required(kind) ==
    IF kind = "Levels" THEN 3
    ELSE IF kind \in {"Contrast", "Brightness"} THEN 1
    ELSE IF kind \in {"Quantize", "Resize", "Canvas", "Aspect"} THEN 2
    ELSE IF kind = "Crop" THEN 5
    ELSE IF kind = "Rotate" THEN 1
    ELSE 0

\* C2: a descriptor with fewer tokens than the operation requires is built
\* with Valid false and a diagnostic, and no constructor reads an argument
\* the descriptor does not have (so none ends the process doing so).
MissingArgumentRejected ==
    /\ pc # "crashed"
    /\ (pc = "built" /\ Len(Args) < Required(op.kind)) =>
          (~op.Valid /\ op.diag # "" /\ ~op.ub)

\* C3: applying Resize a second time to its own output leaves the width and
\* height the first application produced.
ResizeIdempotent ==
    (pc = "applied" /\ op.kind = "Resize" /\ nops = 2) =>
        (image.W = before.W /\ image.H = before.H)

\* The height Resize computes from the width alone, before the clamp, for
\* the application that has just run.
WidthOnly == pc = "applied" /\ op.kind = "Resize" /\ op.Width > 0 /\ op.Height <= 0

ComputedHeight == AspectPreserve(op.Width, op.Height, before.W, before.H).dstH

\* What Resize asked Resample for: <<>> when it made no call.
ResampleSize == IF calls = <<>> THEN <<>> ELSE <<calls[1].a[1], calls[1].a[2]>>

ResampleAsked(dstW, dstH) ==
    IF (dstW = before.W) /\ (dstH = before.H) THEN ResampleSize = <<>>
    ELSE ResampleSize = <<dstW, dstH>>

\* C4 (amended): given only a width, the height Resize computes before the
\* clamp is the single-precision quotient width / (srcW / srcH) cut to an
\* integer, not rounded: it is width*srcH/srcW rounded down, or one less
\* than that when srcW divides width*srcH; Resample is asked for that
\* height clamped to [4, 32768].
ResizeHeightTruncated ==
    WidthOnly =>
        LET n == op.Width * before.H
            h == ComputedHeight
        IN  /\ (h = n \div before.W) \/ ((n % before.W = 0) /\ (h = (n \div before.W) - 1))
            /\ ResampleAsked(tClamp(op.Width, 4, 32768), tClamp(h, 4, 32768))

\* C4 as stated: the height is width*srcH/srcW rounded to the nearest
\* integer.
ResizeHeightRounded ==
    WidthOnly => ComputedHeight = (2 * op.Width * before.H + before.W) \div (2 * before.W)

\* C4 happens: a width-only Resize whose quotient has a fraction of a half
\* or more, above the clamp, has called Resample.
ResizeHeightWitness ==
    /\ WidthOnly
    /\ 2 * ((op.Width * before.H) % before.W) >= before.W
    /\ (op.Width * before.H) \div before.W >= 4
    /\ ResampleSize = <<op.Width, (op.Width * before.H) \div before.W>>


\* The token in slot i of the descriptor: "" when it has none.
Token(i) == IF i <= Len(Args) THEN Args[i] ELSE ""

\* An operation built by a constructor that read only arguments it had.
BuiltWhole == pc \in {"built", "applied"} /\ op.Valid /\ ~op.ub

\* C5: a "*" token in a slot gives the value the slot has when the argument
\* is absent: Levels outBlack 0, outWhite 1 and all frames; Contrast and
\* Brightness 0.5 and all frames; Quantize 256 colours; Canvas anchor
\* middle-middle and fill black; Crop origin 0.
StarIsDefault ==
    BuiltWhole =>
        /\ (op.kind = "Levels" /\ Token(4) = "*") => op.OutBlackPoint = 0
        /\ (op.kind = "Levels" /\ Token(5) = "*") => op.OutWhitePoint = One
        /\ (op.kind = "Levels" /\ Token(6) = "*") => op.FrameNumber = -1
        /\ (op.kind = "Contrast" /\ Token(1) = "*") => op.Contrast = One \div 2
        /\ (op.kind = "Brightness" /\ Token(1) = "*") => op.Brightness = One \div 2
        /\ (op.kind \in {"Contrast", "Brightness"} /\ Token(2) = "*") => op.FrameNumber = -1
        /\ (op.kind = "Quantize" /\ Token(2) = "*") => op.NumColours = 256
        /\ (op.kind = "Canvas" /\ Token(3) = "*") => op.Anchor = "MiddleMiddle"
        /\ (op.kind = "Canvas" /\ Token(4) = "*") => op.FillColour = <<0, 0, 0, 255>>
        /\ (op.kind = "Crop" /\ Token(2) = "*") => op.OriginX = 0
        /\ (op.kind = "Crop" /\ Token(3) = "*") => op.OriginY = 0

\* The named-colour table: <<>> for a token that is no name of it.
ColourTable(name) ==
    IF name = "black" THEN <<0, 0, 0, 255>>
    ELSE IF name = "white" THEN <<255, 255, 255, 255>>
    ELSE IF name = "grey" THEN <<128, 128, 128, 255>>
    ELSE IF name = "red" THEN <<255, 0, 0, 255>>
    ELSE IF name = "green" THEN <<0, 255, 0, 255>>
    ELSE IF name = "blue" THEN <<0, 0, 255, 255>>
    ELSE IF name = "yellow" THEN <<255, 255, 0, 255>>
    ELSE IF name = "cyan" THEN <<0, 255, 255, 255>>
    ELSE IF name = "magenta" THEN <<255, 0, 255, 255>>
    ELSE IF name = "transparent" THEN <<0, 0, 0, 0>>
    ELSE <<>>

\* The colour token of the operation and the colour it was parsed to.
ColourSlot ==
    IF op.kind \in {"Canvas", "Aspect"} THEN [token |-> Token(4), colour |-> op.FillColour]
    ELSE IF op.kind = "Crop" THEN [token |-> Token(6), colour |-> op.FillColour]
    ELSE IF op.kind = "Rotate" /\ op.Exact = "Off"
    THEN [token |-> Token(5), colour |-> op.FillColour]
    ELSE IF op.kind = "Deborder" THEN [token |-> Token(1), colour |-> op.TestColour]
    ELSE IF op.kind = "Channel" THEN [token |-> Token(3), colour |-> op.Colour]
    ELSE [token |-> "", colour |-> <<>>]

\* C6: a name of the named-colour table given as the colour token of Canvas,
\* Aspect, Deborder, Crop, Rotate or Channel is parsed to that colour's own
\* RGBA value.
NamedColourOwnValue ==
    (BuiltWhole /\ ColourTable(ColourSlot.token) # <<>>) =>
        ColourSlot.colour = ColourTable(ColourSlot.token)

\* The operation the constructor of the kind builds from the descriptor.
Construct(kind, argsStr) ==
    IF kind = "Resize" THEN OperationResize(argsStr)
    ELSE IF kind = "Canvas" THEN OperationCanvas(argsStr)
    ELSE IF kind = "Aspect" THEN OperationAspect(argsStr)
    ELSE IF kind = "Deborder" THEN OperationDeborder(argsStr)
    ELSE IF kind = "Crop" THEN OperationCrop(argsStr)
    ELSE IF kind = "Flip" THEN OperationFlip(argsStr)
    ELSE IF kind = "Rotate" THEN OperationRotate(argsStr)
    ELSE IF kind = "Levels" THEN OperationLevels(argsStr, "")
    ELSE IF kind = "Contrast" THEN OperationContrast(argsStr, "")
    ELSE IF kind = "Brightness" THEN OperationBrightness(argsStr, "")
    ELSE IF kind = "Quantize" THEN OperationQuantize(argsStr, "")
    ELSE OperationChannel(argsStr)

\* C7: a descriptor whose name tokens are written in upper or mixed case is
\* parsed to the same operation as the descriptor in lower case.
CaseInsensitiveTokens ==
    (pc = "built" /\ ~op.ub) =>
        op = [Construct(op.kind, ToLower(op.args)) EXCEPT !.args = op.args]

\* Rotate by 45 degrees with the re-crop.
Rotate45Crop ==
    /\ pc = "applied"
    /\ op.kind = "Rotate"
    /\ Token(1) = "45"
    /\ Token(2) = "crop"

\* C8: after Rotate("45,crop"), for every source size and every bounding
\* box the rotation gives, the image is no wider and no higher than the
\* source was.
RotateCropWithinSource ==
    Rotate45Crop => (GetWidth(image) <= GetWidth(before) /\ GetHeight(image) <= GetHeight(before))

\* C8 happens: a source more than twice as wide as high was rotated to a
\* larger box and cropped to less than its width.
RotateCropWitness ==
    /\ Rotate45Crop
    /\ before.W > 2 * before.H
    /\ Len(calls) = 2
    /\ calls[1].fn = "Rotate"
    /\ calls[2].fn = "CropAnchor"
    /\ calls[2].a[1] < before.W
    /\ image.H > 0
    /\ image.H <= before.H

\* The Rotate90 calls an exact mode makes: whether each is anticlockwise.
ExactCalls(exact) ==
    IF exact = "ACW90" THEN <<TRUE>>
    ELSE IF exact = "CW90" THEN <<FALSE>>
    ELSE IF exact = "R180" THEN <<TRUE, TRUE>>
    ELSE <<>>

\* The exact mode the angle token stands for: "Off" for an angle that is
\* not zero.
ExactOf(tok) ==
    IF tok \in {"90", "90.0", "acw", "ccw"} THEN "ACW90"
    ELSE IF tok \in {"-90", "-90.0", "cw"} THEN "CW90"
    ELSE IF tok \in {"180", "180.0"} THEN "R180"
    ELSE IF tok \in {"*", "0", "0.0", "-0.0", "0r", "x", "ACW", "CW"} THEN "Zero"
    ELSE "Off"

\* C9: the angle tokens 90, 90.0, acw, ccw give ExactACW90 and one
\* Rotate90(true); -90, -90.0, cw give ExactCW90 and one Rotate90(false);
\* 180, 180.0 give ExactR180 and two Rotate90(true); "*" and a token that
\* parses to 0.0 give ExactZero and no call; in an exact mode the other
\* arguments change nothing of the operation.
RotateExactModes ==
    (pc \in {"built", "applied"} /\ op.kind = "Rotate" /\ Len(Args) >= 1) =>
        /\ op.Exact = ExactOf(Token(1))
        /\ op.Valid
        /\ op.Exact # "Off" =>
              /\ op = [OperationRotate(Token(1)) EXCEPT !.args = op.args]
              /\ pc = "applied" =>
                    /\ ret
                    /\ Len(calls) = Len(ExactCalls(op.Exact))
                    /\ \A i \in 1 .. Len(calls) :
                          calls[i] = [fn |-> "Rotate90", a |-> <<ExactCalls(op.Exact)[i]>>]
                    /\ op.Exact = "Zero" => image = before

\* C9 happens: Rotate built from "180" and four more arguments has made its
\* two calls.
RotateExactWitness ==
    /\ pc = "applied"
    /\ op.kind = "Rotate"
    /\ Len(Args) = 5
    /\ Token(1) = "180"
    /\ Len(calls) = 2
    /\ image.Undo = before.Undo + 2

\* An operation whose parameters are the identity.
Identity ==
    \/ /\ op.kind = "Levels"
       /\ op.BlackPoint = 0
       /\ 2 * op.MidPoint = One
       /\ op.WhitePoint = One
       /\ op.OutBlackPoint = 0
       /\ op.OutWhitePoint = One
    \/ op.kind = "Contrast" /\ 2 * op.Contrast = One
    \/ op.kind = "Brightness" /\ 2 * op.Brightness = One

\* C10: Apply of Levels with black 0, mid 0.5, white 1, outBlack 0,
\* outWhite 1, and of Contrast or Brightness with 0.5, returns true, calls
\* nothing and leaves the image, its frame cursor, undo steps and dirty flag
\* as they were.
IdentitySkipped ==
    (pc = "applied" /\ Identity) => (ret /\ calls = <<>> /\ image = before)

\* C10 happens: identity Levels naming a frame other than the current one
\* was applied to an image of several frames.
IdentitySkippedWitness ==
    /\ pc = "applied"
    /\ op.kind = "Levels"
    /\ Identity
    /\ op.FrameNumber > -1
    /\ image.NumFrames > 1
    /\ op.FrameNumber # image.FrameNum

\* The channels the mask token of a Spread descriptor names, before the
\* collapse: "*" stands for R, and no channel at all is R.
SpreadParsedMask ==
    LET chans == (IF FindChar(Token(2), "*") # -1 THEN {"R"} ELSE {})
                 \cup MaskLetters(Token(2))
    IN  IF chans = {} THEN {"R"} ELSE chans

\* C11: Apply of a Channel operation in Spread mode passes to Spread a mask
\* of exactly one channel, the lowest one of the parsed mask, also when the
\* descriptor gives the mode token and no mask token.
SpreadOneChannel ==
    (pc = "applied" /\ op.kind = "Channel" /\ op.Mode = "Spread") =>
        /\ Len(calls) = 1
        /\ calls[1].fn = "Spread"
        /\ Cardinality(calls[1].a[1]) = 1
        /\ Len(Args) >= 2 => calls[1].a[1] = FirstSetChannel(SpreadParsedMask)

\* The one call Apply of Crop has made on the image.
CropCall == IF Len(calls) = 1 /\ calls[1].fn = "CropOrigin" THEN calls[1].a ELSE <<>>

\* C12: Apply of Crop makes one Crop call at (originX, originY) with the
\* parsed fill colour; in Absolute mode it asks for width maxX + 1 - originX
\* and height maxY + 1 - originY (origin 0 and maxX 99 give width 100), in
\* Relative mode for the width and height fields as they are.
CropRequest ==
    (pc = "applied" /\ op.kind = "Crop") =>
        /\ ret
        /\ CropCall =
              IF op.Mode = "Absolute"
              THEN <<op.WidthOrMaxX + 1 - op.OriginX, op.HeightOrMaxY + 1 - op.OriginY,
                     op.OriginX, op.OriginY, op.FillColour>>
              ELSE <<op.WidthOrMaxX, op.HeightOrMaxY, op.OriginX, op.OriginY, op.FillColour>>
        /\ op.OriginX = AsInt32(Token(2)) /\ op.OriginY = AsInt32(Token(3))
        /\ AsInt32(Token(4)) > 0 => op.WidthOrMaxX = AsInt32(Token(4))
        /\ AsInt32(Token(5)) > 0 => op.HeightOrMaxY = AsInt32(Token(5))
        /\ op.args = "abs,0,0,99,99" => CropCall = <<100, 100, 0, 0, transparent>>
        /\ op.args = "rel,0,0,99,50" => CropCall = <<99, 50, 0, 0, transparent>>

CropRequestWitness ==
    /\ pc = "applied"
    /\ op.kind = "Crop"
    /\ op.args = "abs,2,3,20,9,red"
    /\ CropCall = <<19, 7, 2, 3, red>>
    /\ image.W = 19

\* Apply of the 16:9 middle-anchored crop has just run on a 1000x1000 image.
Aspect16by9OnSquare ==
    /\ pc = "applied"
    /\ op.kind = "Aspect"
    /\ op.args = "16:9,crop,mm"
    /\ before.W = 1000
    /\ before.H = 1000

\* C13 (as amended): Aspect "16:9,crop,mm" applied to a 1000x1000 image asks
\* for one crop to 1000x563 with the middle-middle anchor: the quotient
\* 1000 / (16/9) is 562.5 in single precision and is converted to the
\* nearest integer.
Aspect16by9Rounded ==
    Aspect16by9OnSquare =>
        /\ ret
        /\ calls = <<[fn |-> "CropAnchor", a |-> <<1000, 563, "MiddleMiddle", black>>]>>
        /\ image.W = 1000 /\ image.H = 563

\* C13 (as stated): Aspect "16:9,crop,mm" applied to a 1000x1000 image asks
\* for a crop to exactly 1000x562 with the middle-middle anchor.
Aspect16by9Truncated ==
    Aspect16by9OnSquare =>
        calls = <<[fn |-> "CropAnchor", a |-> <<1000, 562, "MiddleMiddle", black>>]>>

Aspect16by9Witness ==
    /\ Aspect16by9OnSquare
    /\ Len(calls) = 1
    /\ calls[1].fn = "CropAnchor"
    /\ calls[1].a[2] = 563

\* The ratio a ratio token stands for, for the tokens listed: <<>> for any
\* other token.
RatioTable(tok) ==
    IF tok \in {"abc:def", "0:0", "*:*", "16:", "4:3:2", ":", "*", "3"} THEN <<16, 9>>
    ELSE IF tok = "21:9:" THEN <<21, 9>>
    ELSE IF tok = "-4:3" THEN <<16, 3>>
    ELSE IF tok = "*:3" THEN <<16, 3>>
    ELSE IF tok = "4:-3" THEN <<4, 9>>
    ELSE IF tok = "4:*" THEN <<4, 9>>
    ELSE IF tok = "5:0" THEN <<5, 9>>
    ELSE IF tok = ":9" THEN <<16, 9>>
    ELSE IF tok = "x:5" THEN <<16, 5>>
    ELSE IF tok = "4:3" THEN <<4, 3>>
    ELSE IF tok = "2:1" THEN <<2, 1>>
    ELSE IF tok = "1:1" THEN <<1, 1>>
    ELSE <<>>

\* C14: in the ratio token of Aspect a numerator that is not positive or is
\* no integer becomes 16 and such a denominator becomes 9 ("abc:def" gives
\* 16:9), a token that does not split in exactly two parts on ":" gives
\* 16:9, and Num >= 1 and Den >= 1 hold of every Aspect operation built.
AspectRatioDefaults ==
    (pc \in {"built", "applied"} /\ op.kind = "Aspect") =>
        /\ op.Num >= 1
        /\ op.Den >= 1
        /\ op.Valid =>
              LET parts == tExplode(Token(1), ":") IN
              /\ Len(parts) # 2 => <<op.Num, op.Den>> = <<16, 9>>
              /\ (Len(parts) = 2 /\ AsInt32(parts[1]) <= 0) => op.Num = 16
              /\ (Len(parts) = 2 /\ AsInt32(parts[1]) > 0) => op.Num = AsInt32(parts[1])
              /\ (Len(parts) = 2 /\ AsInt32(parts[2]) <= 0) => op.Den = 9
              /\ (Len(parts) = 2 /\ AsInt32(parts[2]) > 0) => op.Den = AsInt32(parts[2])
              /\ RatioTable(Token(1)) # <<>> => <<op.Num, op.Den>> = RatioTable(Token(1))

AspectRatioWitness ==
    /\ pc = "built"
    /\ op.kind = "Aspect"
    /\ op.Valid
    /\ Token(1) = "-4:3"
    /\ op.Num = 16
    /\ op.Den = 3

\* C15: a Quantize operation of method Spatial has a filter size of 1, 3 or
\* 5 once built: 3 when the argument is absent or "*", 3 for a value given
\* that is none of the three (4 becomes 3), the value itself otherwise; and
\* that is the filter size Apply hands to QuantizeSpatial.
SpatialFilterSize ==
    (pc \in {"built", "applied"} /\ op.kind = "Quantize" /\ op.Method = "Spatial") =>
        /\ op.SampFilt \in {1, 3, 5}
        /\ Token(4) \in {"", "*"} => op.SampFilt = 3
        /\ Token(4) \in {"1", "3", "5"} => op.SampFilt = AsInt(Token(4))
        /\ Token(4) \in {"4", "2", "0", "-1", "7", "x"} => op.SampFilt = 3
        /\ (pc = "applied" /\ calls # <<>>) =>
              /\ calls[1].fn = "QuantizeSpatial"
              /\ calls[1].a[4] = op.SampFilt

SpatialFilterSizeWitness ==
    /\ pc = "applied"
    /\ op.kind = "Quantize"
    /\ op.Method = "Spatial"
    /\ Token(4) = "4"
    /\ op.SampFilt = 3
    /\ calls # <<>>

\* The one call Apply of Channel in Blend mode has made on the image.
BlendCall == IF Len(calls) = 1 /\ calls[1].fn = "AlphaBlendColour" THEN calls[1].a ELSE <<>>

\* C16: Apply of Channel in Blend mode calls AlphaBlendColour with the
\* parsed colour and mask and a final alpha that is the colour's alpha when
\* A is in the mask and -1 when it is not; "blend,rgba,#FF000080" passes
\* colour (255, 0, 0, 128), mask RGBA and final alpha 128.
BlendFinalAlpha ==
    (pc = "applied" /\ op.kind = "Channel" /\ op.Mode = "Blend") =>
        /\ ret
        /\ BlendCall # <<>>
        /\ BlendCall[1] = op.Colour
        /\ BlendCall[2] = op.Channels
        /\ "A" \in BlendCall[2] => BlendCall[3] = BlendCall[1][4]
        /\ "A" \notin BlendCall[2] => BlendCall[3] = -1
        /\ op.args = "blend,rgba,#FF000080" =>
              BlendCall = <<<<255, 0, 0, 128>>, {"R", "G", "B", "A"}, 128>>
        /\ op.args = "blend,rgb,#FF000080" =>
              BlendCall = <<<<255, 0, 0, 128>>, {"R", "G", "B"}, -1>>

BlendFinalAlphaWitness ==
    /\ pc = "applied"
    /\ op.kind = "Channel"
    /\ op.args = "blend,rgba,#FF000080"
    /\ BlendCall # <<>>
    /\ BlendCall[3] = 128

\* C17: Apply of an operation of any kind on an image whose width or height
\* is zero returns false, prints a diagnostic line and calls no primitive of
\* the image.
ZeroSizeRefused ==
    (pc = "applied" /\ (before.W = 0 \/ before.H = 0)) =>
        /\ ~ret
        /\ ApplyPrinted
        /\ calls = <<>>

(***************************************************************************)
(* Operations applied one after another to the same image: each is built   *)
(* once the one before it has been applied.                                *)
(***************************************************************************)
PipelineOps ==
    {<<"Resize", "8,6">>, <<"Resize", "3,*">>,
     <<"Canvas", "8,12,tl,white">>, <<"Canvas", "*,12">>,
     <<"Aspect", "2:1,crop">>, <<"Aspect", "16:9,letter,mm">>,
     <<"Rotate", "45,crop">>, <<"Rotate", "90">>,
     <<"Deborder", "">>, <<"Deborder", "white,rg">>,
     <<"Channel", "set,rgb,red">>, <<"Channel", "set,*,#10203040">>}

PipelineImages == {Picture(8, 8, 1, 0, white), Picture(12, 5, 1, 0, white)}

InitPipeline ==
    /\ pc = "idle"
    /\ op = NoOperation
    /\ image \in PipelineImages
    /\ calls = <<>>
    /\ ret = TRUE
    /\ before = image
    /\ nops = 0

\* The next operation of the command line is constructed.
ConstructNext ==
    /\ pc \in {"idle", "applied"}
    /\ nops < MaxApplies
    /\ \E d \in PipelineOps : \E o \in {Construct(d[1], d[2])} :
          /\ pc' = "built"
          /\ op' = o
          /\ UNCHANGED <<image, calls, ret, before, nops>>

NextPipeline ==
    \/ ConstructNext
    \/ ApplyResize
    \/ ApplyCanvas
    \/ ApplyAspect
    \/ ApplyRotate
    \/ ApplyDeborder
    \/ ApplyChannel

SpecPipeline == InitPipeline /\ [][NextPipeline]_vars

\* What the Apply that has just returned left.
Outcome == [image |-> image, calls |-> calls, ret |-> ret]

\* C18: an operation applied after another works on the image the one before
\* left: Resize, Canvas, Aspect and Rotate take the width and height, and
\* Deborder without a test colour takes the pixel at (0, 0), from the image
\* as it is when Apply runs; Apply leaves the operation's parsed fields as
\* the constructor set them, so the outcome is the one of the operation
\* freshly constructed from its descriptor and applied to that image.
AppliedToCurrentImage ==
    pc = "applied" =>
        /\ op = Construct(op.kind, op.args)
        /\ (op.kind = "Deborder" /\ ~op.UseTestColour) =>
              calls = <<[fn |-> "Deborder", a |-> <<GetPixel(before), op.Channels>>]>>
        /\ (op.kind = "Deborder" /\ op.UseTestColour) =>
              calls = <<[fn |-> "Deborder", a |-> <<op.TestColour, op.Channels>>]>>
        /\ op.kind = "Resize" => Outcome = ResizeApply(Construct("Resize", op.args), before)
        /\ op.kind = "Canvas" => Outcome = CanvasApply(Construct("Canvas", op.args), before)
        /\ op.kind = "Aspect" => Outcome = AspectApply(Construct("Aspect", op.args), before)
        /\ op.kind = "Rotate" =>
              \E box \in RotatedBoxes(GetWidth(before), GetHeight(before), op.Angle) :
                  Outcome = RotateApply(Construct("Rotate", op.args), before, box)
        /\ (op.kind = "Resize" /\ op.args = "8,6") =>
              calls = IF before.W = 8 /\ before.H = 6 THEN <<>>
                      ELSE <<[fn |-> "Resample", a |-> <<8, 6, "bilinear", "clamp">>]>>

AppliedToCurrentImageWitness ==
    /\ pc = "applied"
    /\ nops = 2
    /\ op.kind = "Deborder"
    /\ ~op.UseTestColour
    /\ before.Pixel = <<255, 0, 0, 255>>
    /\ calls = <<[fn |-> "Deborder", a |-> <<before.Pixel, op.Channels>>]>>

\* Apply of a Rotate by an angle in Resize mode has just run on an image
\* that has a picture.
RotateResized ==
    /\ pc = "applied"
    /\ op.kind = "Rotate"
    /\ op.Exact = "Off"
    /\ op.Mode = "Resize"
    /\ before.NumFrames > 0

\* The last call Apply has made on the image.
LastCall == calls[Len(calls)]

\* C19: in Resize mode of a Rotate by an angle, the closing Resample asks for
\* the width and height the image had before the rotation and the image ends
\* with them, also when the rotated bounding box is tall where the source was
\* wide or wide where it was tall.
RotateResizeRestoresSize ==
    RotateResized =>
        /\ Len(calls) = 3
        /\ LastCall.fn = "Resample"
        /\ LastCall.a[1] = before.W
        /\ LastCall.a[2] = before.H
        /\ image.W = before.W
        /\ image.H = before.H

\* C20: the closing Resample of Resize mode takes the up-filter when the
\* descriptor names one and nearest-neighbour when the descriptor has no
\* up-filter argument ("30,resize"), with the clamp edge mode in every case.
RotateResizeFilter ==
    RotateResized =>
        /\ LastCall.fn = "Resample"
        /\ LastCall.a[4] = "clamp"
        /\ Token(3) = "" => LastCall.a[3] = "nearest"
        /\ Token(3) \in {"box", "bilinear"} => LastCall.a[3] = Token(3)
        /\ Token(3) = "NEAREST" => LastCall.a[3] = "nearest"

\* A Levels operation built from a descriptor that has its three points.
LevelsBuilt == pc \in {"built", "applied"} /\ op.kind = "Levels" /\ Len(Args) >= 3

\* The greater of two values.
Max(a, b) == IF a >= b THEN a ELSE b

\* C21: in Levels only the mid-point token "*" gives the automatic
\* mid-point (white point raised to the black point, mid-point half way
\* between them); any number as the mid-point token, a negative one too, is
\* saturated to [0, 1] and raised to the black point, and the white point
\* is then raised to the mid-point.
LevelsAutoMidOnlyByStar ==
    LevelsBuilt =>
        LET b == tSaturate(AsFloat(Token(1)))
            w == tSaturate(AsFloat(Token(3)))
            m == Max(tSaturate(AsFloat(Token(2))), b)
        IN  /\ op.BlackPoint = b
            /\ Token(2) = "*" =>
                  /\ op.WhitePoint = Max(w, b)
                  /\ op.MidPoint = (b + Max(w, b)) \div 2
            /\ Token(2) # "*" =>
                  /\ op.MidPoint = m
                  /\ op.WhitePoint = Max(w, m)

\* C22: a Levels operation built from a descriptor of three tokens or more
\* has 0 <= BlackPoint <= MidPoint <= WhitePoint <= 1 and
\* OutWhitePoint >= OutBlackPoint, whatever the tokens were.
LevelsOrdered ==
    LevelsBuilt =>
        /\ 0 <= op.BlackPoint
        /\ op.BlackPoint <= op.MidPoint
        /\ op.MidPoint <= op.WhitePoint
        /\ op.WhitePoint <= One
        /\ op.OutWhitePoint >= op.OutBlackPoint

LevelsOrderedWitness ==
    /\ LevelsBuilt
    /\ op.args = "0.2,0.4,0.8,0.95,0.9,1,g,true"
    /\ op.OutBlackPoint = op.OutWhitePoint
    /\ op.OutWhitePoint = 9500

\* Apply of Levels, Contrast or Brightness has just run on an image with a
\* picture, the operation built from arguments it had.
AdjustApplied ==
    /\ pc = "applied"
    /\ op.kind \in {"Levels", "Contrast", "Brightness"}
    /\ ~op.ub
    /\ before.NumFrames > 0

\* The frame selector token: "" when the descriptor has none.
FrameToken == IF op.kind = "Levels" THEN Token(6) ELSE Token(2)

\* The allFrames flag and the frame cursor of the Adjust call made.
AdjustScope == <<calls[2].a[Len(calls[2].a) - 1], calls[2].a[Len(calls[2].a)]>>

\* C23: Levels, Contrast and Brightness given an integer frame selector n
\* adjust one frame only, with the frame cursor on n clamped into
\* [0, NumFrames - 1]; given "*" or no selector they adjust all frames; and
\* on every path the frame cursor after Apply is the one before it.
FrameSelectorScoped ==
    AdjustApplied =>
        /\ image.FrameNum = before.FrameNum
        /\ calls # <<>> =>
              /\ Len(calls) = 3
              /\ FrameToken \in {"", "*"} => AdjustScope = <<TRUE, before.FrameNum>>
              /\ FrameToken \notin {"", "*"} =>
                    AdjustScope = <<FALSE, tClamp(AsInt32(FrameToken), 0, before.NumFrames - 1)>>


\* A Crop operation built from a descriptor that has the five tokens the
\* constructor reads.
CropBuilt == pc \in {"built", "applied"} /\ op.kind = "Crop" /\ Len(Args) >= 5

\* The third or fourth field as given: token i, a non-positive value
\* replaced by 4 in Relative mode and by 3 in Absolute mode.
CropFieldGiven(i) ==
    LET v == AsInt32(Args[i]) IN
    IF v > 0 THEN v ELSE IF Args[1] = "rel" THEN 4 ELSE 3

\* The extent the descriptor asks for along the axis of origin token i and
\* field token j.
CropExtentGiven(i, j) ==
    IF Args[1] = "rel" THEN CropFieldGiven(j)
    ELSE CropFieldGiven(j) + 1 - AsInt32(Args[i])

\* C24: a Crop built from five tokens or more is valid exactly when originX
\* and originY are >= 0 and the extent is >= 4 on both axes (Absolute:
\* max + 1 - origin, a non-positive max replaced by 3; Relative: the size, a
\* non-positive size replaced by 4); and every Crop applied asks for a width
\* and a height >= 4.
CropValidExtent ==
    CropBuilt =>
        /\ op.Valid <=> /\ AsInt32(Args[2]) >= 0
                        /\ AsInt32(Args[3]) >= 0
                        /\ CropExtentGiven(2, 4) >= 4
                        /\ CropExtentGiven(3, 5) >= 4
        /\ pc = "applied" =>
              /\ Len(calls) = 1
              /\ calls[1].fn = "CropOrigin"
              /\ calls[1].a[1] = CropExtentGiven(2, 4) /\ calls[1].a[1] >= 4
              /\ calls[1].a[2] = CropExtentGiven(3, 5) /\ calls[1].a[2] >= 4

\* An Absolute crop whose far corner was left to the default has been applied:
\* the corner (3, 3) from the origin (0, 0) is the least extent accepted.
CropValidExtentWitness ==
    /\ pc = "applied"
    /\ op.kind = "Crop"
    /\ op.args = "abs,0,0,*,*"
    /\ calls[1].a[1] = 4
    /\ calls[1].a[2] = 4


(***************************************************************************)
(* Canvas and Aspect with explicit anchor coordinates, over sources up to  *)
(* a side whose product with an anchor leaves the range of int.            *)
(***************************************************************************)
WideSide == 50000

AnchorSizes == {<<8, 8>>, <<12, 5>>, <<4, 12>>, <<WideSide, 4>>}

AnchorImages == {Picture(s[1], s[2], 1, 0, white) : s \in AnchorSizes}

AnchorCoordTokens == {"*", "0", "1", "3", "8", "12", "-1", ToString(WideSide)}

CanvasAnchorArgs ==
    {Join(<<w, h, "tl", "black", x, y>>) :
        w \in {"4", "6", "20"}, h \in {"4", "6", "*"},
        x \in AnchorCoordTokens, y \in AnchorCoordTokens}

AspectAnchorArgs ==
    {Join(<<r, m, "br", "black", x, y>>) :
        r \in {"1:1", "2:1", "1:2"}, m \in {"crop", "letter"},
        x \in AnchorCoordTokens, y \in AnchorCoordTokens}

InitAnchor ==
    /\ pc = "idle"
    /\ op = NoOperation
    /\ image \in AnchorImages
    /\ calls = <<>>
    /\ ret = TRUE
    /\ before = image
    /\ nops = 0

ConstructCanvasAnchor == pc = "idle" /\ \E a \in CanvasAnchorArgs : Built(OperationCanvas(a))
ConstructAspectAnchor == pc = "idle" /\ \E a \in AspectAnchorArgs : Built(OperationAspect(a))

NextAnchor ==
    \/ ConstructCanvasAnchor
    \/ ConstructAspectAnchor
    \/ ApplyCanvas
    \/ ApplyAspect

SpecAnchor == InitAnchor /\ [][NextAnchor]_vars

\* Apply of Canvas or Aspect has just cropped the image.
AnchorCropped ==
    /\ pc = "applied"
    /\ op.kind \in {"Canvas", "Aspect"}
    /\ Len(calls) = 1

\* The origin Canvas and Aspect work out along one axis: the anchor times
\* the size difference, then divided by the source size, in ints.
AnchorOrigin(anchor, src, dst) == IntDiv(IntMul(anchor, src - dst), src)

\* C25: Canvas and Aspect crop at explicit coordinates exactly when anchorX
\* and anchorY are both >= 0, at originX = anchorX * (srcW - dstW) / srcW and
\* originY = anchorY * (srcH - dstH) / srcH (32 bit ints, the multiplication
\* first, the division truncating toward zero), and with the named anchor
\* otherwise; and for 0 <= anchor <= src and dst <= src the origin lies in
\* 0 .. src - dst.
AnchorOriginInRange ==
    AnchorCropped =>
        LET c == calls[1]
            srcW == GetWidth(before)
            srcH == GetHeight(before)
        IN  /\ (c.fn = "CropOrigin") <=> ((op.AnchorX >= 0) /\ (op.AnchorY >= 0))
            /\ (c.fn # "CropOrigin") => (c.fn = "CropAnchor" /\ c.a[3] = op.Anchor)
            /\ (c.fn = "CropOrigin") =>
                  /\ c.a[3] = AnchorOrigin(op.AnchorX, srcW, c.a[1])
                  /\ c.a[4] = AnchorOrigin(op.AnchorY, srcH, c.a[2])
                  /\ (op.AnchorX <= srcW /\ c.a[1] <= srcW) =>
                        (0 <= c.a[3] /\ c.a[3] <= srcW - c.a[1])
                  /\ (op.AnchorY <= srcH /\ c.a[2] <= srcH) =>
                        (0 <= c.a[4] /\ c.a[4] <= srcH - c.a[2])


\* Apply of Resize or Canvas has just run on an image with a picture.
SizedApplied ==
    /\ pc = "applied"
    /\ op.kind \in {"Resize", "Canvas"}
    /\ GetWidth(before) > 0
    /\ GetHeight(before) > 0

\* C26: Resize and Canvas only ask for a target size with width and height
\* in 4 .. 32768, whatever dimensions were parsed and whatever the source
\* aspect; and when the target size is the source size Apply returns true
\* with no Resample and no Crop call.
TargetInBounds ==
    SizedApplied =>
        LET src == <<GetWidth(before), GetHeight(before)>>
            given == <<tClamp(op.Width, 4, 32768), tClamp(op.Height, 4, 32768)>>
        IN  /\ ret
            /\ Len(calls) <= 1
            /\ calls # <<>> =>
                  /\ calls[1].fn \in (IF op.kind = "Resize" THEN {"Resample"}
                                      ELSE {"CropOrigin", "CropAnchor"})
                  /\ calls[1].a[1] \in 4 .. 32768
                  /\ calls[1].a[2] \in 4 .. 32768
                  /\ <<calls[1].a[1], calls[1].a[2]>> # src
            /\ (op.Width > 0 /\ op.Height > 0) =>
                  IF given = src THEN calls = <<>> /\ image = before
                  ELSE calls # <<>> /\ <<calls[1].a[1], calls[1].a[2]>> = given
            /\ calls = <<>> => image = before

\* A Resize asking for a height of 40000 alone has run on the 12x5 image: the
\* width the aspect gives, 96000, and the height are both brought to 32768.
TargetInBoundsWitness ==
    /\ SizedApplied
    /\ op.kind = "Resize"
    /\ op.args = "*,40000"
    /\ GetWidth(before) = 12
    /\ calls[1].a[1] = 32768
    /\ calls[1].a[2] = 32768


\* A Channel operation built from a descriptor that has a mask token.
MaskGiven == pc \in {"built", "applied"} /\ op.kind = "Channel" /\ Len(Args) >= 2

\* The mode the mode token names: Blend for "*" and for any unknown word.
ModeNamed ==
    IF Args[1] = "set" THEN "Set"
    ELSE IF Args[1] = "spread" THEN "Spread"
    ELSE IF Args[1] = "intens" THEN "Intensity"
    ELSE "Blend"

\* What a "*" in the mask stands for in the mode named.
StarChannels ==
    IF ModeNamed = "Blend" THEN {"R", "G", "B", "A"}
    ELSE IF ModeNamed = "Spread" THEN {"R"}
    ELSE {"R", "G", "B"}

\* The mask the mask token names: the expansion of "*" if it has one, and
\* the channels of its letters.
MaskNamed ==
    (IF FindChar(Args[2], "*") # -1 THEN StarChannels ELSE {}) \cup MaskLetters(Args[2])

\* The mask argument of the one call Apply of Channel has made.
MaskPassed ==
    IF calls[1].fn \in {"SetAllPixels", "AlphaBlendColour"} THEN calls[1].a[2]
    ELSE calls[1].a[1]

\* C27: a Channel operation given a mask token has the mode its mode token
\* names (Blend for "*" or an unknown word) and the mask its mask token names
\* ("*" standing for RGB in Set, RGBA in Blend, R in Spread, RGB in Intensity,
\* each letter r, g, b, a adding its channel), R when that names no channel;
\* in Spread mode the mask is one channel of it.  The mask Apply passes to
\* the image is never empty.
ChannelMaskResolved ==
    MaskGiven =>
        LET some == IF MaskNamed = {} THEN {"R"} ELSE MaskNamed
        IN  /\ op.Mode = ModeNamed
            /\ op.Channels # {}
            /\ op.Mode # "Spread" => op.Channels = some
            /\ op.Mode = "Spread" =>
                  (op.Channels \subseteq some /\ Cardinality(op.Channels) = 1)
            /\ pc = "applied" =>
                  /\ Len(calls) = 1
                  /\ MaskPassed = op.Channels
                  /\ MaskPassed # {}

\* A Set operation whose mask token names no channel has been applied: the
\* call went out with R.
ChannelMaskResolvedWitness ==
    /\ pc = "applied"
    /\ op.kind = "Channel"
    /\ op.args = "set,x,white"
    /\ calls[1].fn = "SetAllPixels"
    /\ MaskPassed = {"R"}


\* A Quantize operation built from a descriptor that has the two tokens the
\* constructor reads.
QuantizeBuilt ==
    pc \in {"built", "applied"} /\ op.kind = "Quantize" /\ ~op.ub /\ Len(Args) >= 2

\* The call Apply of the operation is to make: the primitive of its method
\* with the values it holds.
QuantizeCall ==
    IF op.Method = "Fixed" THEN [fn |-> "QuantizeFixed", a |-> <<op.NumColours, op.CheckExact>>]
    ELSE IF op.Method = "Spatial"
    THEN [fn |-> "QuantizeSpatial",
          a |-> <<op.NumColours, op.CheckExact, op.Dither, op.SampFilt>>]
    ELSE IF op.Method = "Neu"
    THEN [fn |-> "QuantizeNeu", a |-> <<op.NumColours, op.CheckExact, op.SampFilt>>]
    ELSE [fn |-> "QuantizeWu", a |-> <<op.NumColours, op.CheckExact>>]

\* C28: a Quantize built from two tokens or more has numColours in 2 .. 256
\* ("*" gives 256); with method Neu a sample factor in 1 .. 30, 1 when none
\* is given; a dither level in [0, 30] that is non-zero only with method
\* Spatial; with method Fixed or Wu a fourth and fifth token change nothing;
\* and Apply makes the one Quantize call of the method with these values.
QuantizeResolved ==
    QuantizeBuilt =>
        /\ op.NumColours \in 2 .. 256
        /\ Args[2] = "*" => op.NumColours = 256
        /\ op.Method = "Neu" =>
              /\ op.SampFilt \in 1 .. 30
              /\ Token(4) \in {"", "*"} => op.SampFilt = 1
        /\ op.Dither >= 0 /\ op.Dither <= 30 * One
        /\ op.Dither # 0 => op.Method = "Spatial"
        /\ op.Method \in {"Fixed", "Wu"} =>
              (op.SampFilt = QuantizeFields.SampFilt /\ op.Dither = QuantizeFields.Dither)
        /\ pc = "applied" => (ret /\ Len(calls) = 1 /\ calls[1] = QuantizeCall)

\* A Fixed quantize given a filter size and a dither level has been applied:
\* neither was taken, and QuantizeFixed got the colour count and the flag.
QuantizeResolvedWitness ==
    /\ pc = "applied"
    /\ op.kind = "Quantize"
    /\ op.args = "fix,16,true,5,2.5"
    /\ op.Dither = 0
    /\ calls[1] = [fn |-> "QuantizeFixed", a |-> <<16, TRUE>>]


\* A Rotate by an angle in Crop or Resize mode is about to run, or has run
\* and may run again, on an image that has a picture.
RecropAhead ==
    /\ pc \in {"built", "applied"}
    /\ op.kind = "Rotate"
    /\ op.Valid
    /\ op.Exact = "Off"
    /\ op.Mode \in {"Crop", "Resize"}
    /\ image.NumFrames > 0

\* The crop call of the Apply that has just run.
RecropCall == calls[2]

\* C29: in Crop or Resize mode of a Rotate by an angle, for a source of
\* width and height >= 1 and every bounding box the rotation can leave that
\* is no smaller than the source on either side (the source sides taken
\* after the aspect-flip swap), the re-crop size has 1 <= newW <= origW and
\* 1 <= newH <= origH; a 1x1 source gives (1, 1); and the crop Apply asks for
\* has no zero and no negative side.
RecropAtLeastOne ==
    RecropAhead =>
        /\ \A b \in RotatedBoxes(GetWidth(image), GetHeight(image), op.Angle) :
              LET d == RotateCropDims(GetWidth(image), GetHeight(image), b[1], b[2])
              IN  /\ (b[1] >= d.origW /\ b[2] >= d.origH) =>
                        /\ 1 <= d.newW /\ d.newW <= d.origW
                        /\ 1 <= d.newH /\ d.newH <= d.origH
                  /\ (GetWidth(image) = 1 /\ GetHeight(image) = 1) =>
                        (d.newW = 1 /\ d.newH = 1)
        /\ (pc = "applied" /\ before.NumFrames > 0) =>
              /\ RecropCall.fn = "CropAnchor"
              /\ RecropCall.a[1] >= 1
              /\ RecropCall.a[2] >= 1



\* Apply of Aspect has just cropped an image that had a picture.
AspectCropped ==
    /\ pc = "applied"
    /\ op.kind = "Aspect"
    /\ GetWidth(before) >= 1 /\ GetHeight(before) >= 1
    /\ op.Num >= 1 /\ op.Den >= 1
    /\ Len(calls) = 1

\* C30: Aspect never asks for a crop with a zero side: on a source of width
\* and height >= 1 with a ratio of Num, Den >= 1 the target width and height
\* handed to the crop are both >= 1, in Crop mode neither above the source's
\* and in Letterbox mode neither below it.
AspectAtLeastOne ==
    AspectCropped =>
        LET dstW == calls[1].a[1]
            dstH == calls[1].a[2]
        IN  /\ dstW >= 1
            /\ dstH >= 1
            /\ op.Mode = "Crop" => (dstW <= GetWidth(before) /\ dstH <= GetHeight(before))
            /\ op.Mode = "Letterbox" =>
                  (dstW >= GetWidth(before) /\ dstH >= GetHeight(before))

====
